---- MODULE Spec2Model ----
\* Session runner, harvest cycle loop and comment store of the three scraper
\* variants of the repository: src/scraper.py (web-app module, with stop()),
\* src/scraper_full.py (full headless runner) and src/FB_Scraper_V2.py.
EXTENDS Integers, Sequences, FiniteSets, TLC

VARIABLES
    impl,             \* which of the three source files is running
    pc,               \* position of the run
    urlIdx,           \* idx of "for idx, url in enumerate(urls, 1)"
    url_type,         \* determine_url_type(...) of the current URL
    cycle,            \* loop variable of "for cycle in range(1, max_cycles + 1)"
    step,             \* position inside the body of the current cycle
    no_new_streak,
    cycle_start,
    view_more_clicked,\* FB_Scraper_V2: result of click_view_more_comments in this cycle
    articles,         \* elements of the current scan that are not yet processed
    all_comments,
    processed_texts,  \* processed_texts / processed_comment_texts
    should_stop,
    browserOpen,
    pages,            \* owners of the pages that are open: 0 = session page, i = page of URL i
    page,             \* the local variable "page": owner of the page it is bound to
    failed_urls,      \* URLs whose processing ended in the error branch
    success_count,    \* FB_Scraper_V2: URLs for which scrape_single_url returned True
    written,          \* an output file was written
    output,           \* the rows handed to the output sink
    result,           \* how the run ended
    view_more_fired,  \* a load-more click has fired in a cycle of the current URL
    opsAfterStop,     \* browser operations started since should_stop was set
    fn,               \* the helper function that was called last ("none": none yet)
    arg,              \* its arguments, a record
    ret,              \* what it returned, a record
    page_url_type,    \* determine_url_type(page.url) once the navigation has settled
    container,        \* the node that was located: "none", "attached" or "detached"
    buttons,          \* the controls the page shows: "replies", "more", "previous"
    clicks,           \* clicks on the reply control for the current URL (two: two or more)
    expanded_buttons, \* FB_Scraper_V2: self.expanded_buttons
    round_num,        \* FB_Scraper_V2: loop variable of expand_all_replies
    revealed,         \* the reveal actions that fired in the current cycle
    scrolled,         \* scraper.py, scraper_full.py: the result of the scroll script
    clicked,          \* what the last click on "View more comments" returned: the
                      \* number of controls it clicked
    caught,           \* the scan that is running has taken the except branch of
                      \* its loop body for an element
    inflight,         \* scraper.py: the scan is suspended inside the processing of
                      \* an element, past the test of should_stop of its iteration
    stopped_at        \* len(all_comments) when stop() was called

vars == <<impl, pc, urlIdx, url_type, cycle, step, no_new_streak, cycle_start,
          view_more_clicked, articles, all_comments, processed_texts, should_stop,
          browserOpen, pages, page, failed_urls, success_count, written, output,
          result, view_more_fired, opsAfterStop, fn, arg, ret, page_url_type,
          container, buttons, clicks, expanded_buttons, round_num, revealed,
          scrolled, clicked, caught, inflight, stopped_at>>

fnVars == <<fn, arg, ret>>

\* the page of the current URL and what the reveal actions did to it
domVars == <<container, buttons, clicks, expanded_buttons, round_num>>

-----------------------------------------------------------------------------
\* Bounds of the model

NumUrls == 2
MaxComments == 2
MaxElems == 1
MaxLoadMore == 1

-----------------------------------------------------------------------------
\* Texts are sequences of one-character strings.

T_ab   == <<"a", "b">>
T_a_b  == <<"a", " ", "b">>
T_a__b == <<"a", " ", " ", "b">>
T_pad  == <<" ", "a", "b", " ">>
T_1    == <<"1">>
T_sp   == <<" ">>

RawTexts == {T_ab, T_a_b, T_a__b, T_pad, T_1, T_sp}

IsSpace(c) == c = " "
Digits == {"0", "1", "2", "3", "4", "5", "6", "7", "8", "9"}
IsDigit(c) == c \in Digits

RECURSIVE LStrip(_)
LStrip(s) ==
    IF s = <<>> THEN <<>>
    ELSE IF IsSpace(Head(s)) THEN LStrip(Tail(s)) ELSE s

RECURSIVE RStrip(_)
RStrip(s) ==
    IF s = <<>> THEN <<>>
    ELSE IF IsSpace(s[Len(s)]) THEN RStrip(SubSeq(s, 1, Len(s) - 1)) ELSE s

\* str.strip()
Strip(s) == RStrip(LStrip(s))

RECURSIVE WordLen(_)
WordLen(s) ==
    IF s = <<>> \/ IsSpace(Head(s)) THEN 0 ELSE 1 + WordLen(Tail(s))

\* ' '.join(s.split())
RECURSIVE JoinSplit(_)
JoinSplit(s) ==
    LET t == LStrip(s) IN
    IF t = <<>> THEN <<>>
    ELSE LET n    == WordLen(t)
             rest == JoinSplit(SubSeq(t, n + 1, Len(t)))
         IN  IF rest = <<>> THEN SubSeq(t, 1, n)
             ELSE SubSeq(t, 1, n) \o <<" ">> \o rest

\* re.sub(r'\s+', ' ', s)
RECURSIVE SquashRuns(_)
SquashRuns(s) ==
    IF s = <<>> THEN <<>>
    ELSE IF IsSpace(Head(s)) THEN <<" ">> \o SquashRuns(LStrip(s))
    ELSE <<Head(s)>> \o SquashRuns(Tail(s))

AllDigits(s) == \A i \in 1..Len(s) : IsDigit(s[i])


\* letters, for str.lower() and re.IGNORECASE
UpperLetters == <<"A", "B", "C", "D", "E", "F", "G", "H", "I", "J", "K", "L", "M", "N", "O", "P", "Q", "R", "S", "T", "U", "V", "W", "X", "Y", "Z">>
LowerLetters == <<"a", "b", "c", "d", "e", "f", "g", "h", "i", "j", "k", "l", "m", "n", "o", "p", "q", "r", "s", "t", "u", "v", "w", "x", "y", "z">>

IsUpper(c) == \E k \in 1..Len(UpperLetters) : UpperLetters[k] = c

LowerChar(c) ==
    IF IsUpper(c)
    THEN LowerLetters[CHOOSE k \in 1..Len(UpperLetters) : UpperLetters[k] = c]
    ELSE c

\* str.lower()
Lower(s) == [k \in 1..Len(s) |-> LowerChar(s[k])]

IsLetter(c) == \E k \in 1..Len(LowerLetters) : LowerLetters[k] = LowerChar(c)

\* the class \w of re
IsWordChar(c) == IsLetter(c) \/ IsDigit(c) \/ c = "_"

\* str.startswith
StartsWith(s, prefix) ==
    Len(prefix) <= Len(s) /\ SubSeq(s, 1, Len(prefix)) = prefix

\* s[n:]
Drop(s, n) == SubSeq(s, n + 1, Len(s))

\* s without its leading digits (what \d* consumes)
RECURSIVE DropDigits(_)
DropDigits(s) ==
    IF s = <<>> THEN <<>>
    ELSE IF IsDigit(Head(s)) THEN DropDigits(Tail(s)) ELSE s

\* length of the leading run of \w characters (what \w* consumes)
RECURSIVE WordRun(_)
WordRun(s) ==
    IF s = <<>> THEN 0
    ELSE IF IsWordChar(Head(s)) THEN 1 + WordRun(Tail(s)) ELSE 0

-----------------------------------------------------------------------------
\* Program constants

Impls == {"scraper", "full", "v2"}
Types == {"WATCH", "REEL", "POST"}

\* max_cycles of the cycle loop of each content type
MaxCycles(i, t) ==
    IF i = "v2" THEN 50
    ELSE IF t = "POST" THEN 20
    ELSE IF t = "WATCH" THEN 30
    ELSE 50

\* variant: range(1, max_cycles + 2)
CycleRange_OneMore(i, t) == 1..(MaxCycles(i, t) + 1)

\* range(1, max_cycles + 1)
CycleRange(i, t) == 1..MaxCycles(i, t)

\* variant: the loop breaks at three for every content type
StreakThreshold_AllThree(i, t) == 3

\* the value of no_new_streak at which the loop breaks
StreakThreshold(i, t) ==
    IF i # "v2" /\ t = "WATCH" THEN 4 ELSE 3

\* the steps of one cycle, in the order of the loop body
CycleSteps(i, t) ==
    IF i = "v2"
    THEN IF t = "POST" THEN <<"expand", "scan_begin", "scan", "scroll">>
         ELSE <<"expand", "scan_begin", "scan", "load_more">>
    ELSE IF t = "POST"
         THEN <<"load_more", "expand", "scan_begin", "scan", "scroll",
                "load_more", "expand", "scan_begin", "scan">>
         ELSE <<"load_more", "expand", "scan_begin", "scan">>

\* max_rounds of expand_all_replies
max_rounds == 10

\* the reply control of the page: its text and its offsetTop
ReplyText == "View 2 replies"
ReplyTop == 0

\* button_id = f"{text}_{round_num}_{offsetTop}" of expand_all_replies
button_id(text, r, top) == <<text, r, top>>

\* what the scroll script answers when it finds no container or no scrollable
\* element
NotScrolled == [scrolled |-> FALSE, from |-> 0, to |-> 0]

\* maxScroll (scrollHeight - clientHeight) of the scrollable element
ScrollMax == 100

Min(a, b) == IF a < b THEN a ELSE b

\* the scroll script of scrape_post on a scrollable element at oldScrollTop:
\* scrollTop is set to the target (relativeTop + clientHeight * 0.8, or
\* oldScrollTop + scrollAmount), which the script or the browser caps at
\* maxScroll
ScrollScript(oldScrollTop, maxScroll, target) ==
    LET newScrollTop == Min(target, maxScroll)
        didScroll    == newScrollTop > oldScrollTop \/ oldScrollTop >= maxScroll - 10
    IN  [scrolled |-> didScroll, from |-> oldScrollTop, to |-> newScrollTop]

-----------------------------------------------------------------------------
\* Comment elements of the page and their classification

Element(t, a, l, s, f) ==
    [text |-> t, aria |-> a, link |-> l, sticker |-> s, fails |-> f]

\* the elements a page can show: comments with every text of RawTexts, sticker
\* comments, an article without label and profile link, and one whose reading
\* raises
Elements ==
    {Element(t, "comment", FALSE, FALSE, FALSE) : t \in RawTexts}
    \cup {Element(t, "comment", FALSE, TRUE, FALSE) : t \in {T_a_b, T_a__b}}
    \cup {Element(T_ab, "none", FALSE, FALSE, FALSE),
          Element(T_ab, "comment", FALSE, FALSE, TRUE)}

\* ^\d+[<units>]$ under re.IGNORECASE
MatchesAge(c, units) ==
    /\ Len(c) >= 2
    /\ AllDigits(SubSeq(c, 1, Len(c) - 1))
    /\ LowerChar(c[Len(c)]) \in units

\* ^(Like|Reply|Share|Follow|Author)$
ui_patterns_words ==
    {<<"l", "i", "k", "e">>,
    <<"r", "e", "p", "l", "y">>,
    <<"s", "h", "a", "r", "e">>,
    <<"f", "o", "l", "l", "o", "w">>,
    <<"a", "u", "t", "h", "o", "r">>}

W_most_relevant == <<"m", "o", "s", "t", " ", "r", "e", "l", "e", "v", "a", "n", "t">>
W_view_ == <<"v", "i", "e", "w", " ">>
W__repl == <<" ", "r", "e", "p", "l">>

\* ^(Most relevant|View \d+ repl) under re.IGNORECASE
MatchesHeader(c) ==
    LET l == Lower(c)
        r == Drop(l, Len(W_view_))
    IN  \/ StartsWith(l, W_most_relevant)
        \/ /\ StartsWith(l, W_view_)
           /\ r # <<>>
           /\ IsDigit(Head(r))
           /\ StartsWith(DropDigits(r), W__repl)

\* scraper.py / scraper_full.py: is_meaningful_text
is_meaningful_text(t) ==
    LET c == Strip(t) IN
    /\ t # <<>>
    /\ Len(c) >= 2
    /\ Lower(c) \notin ui_patterns_words
    /\ ~MatchesAge(c, {"w", "d", "h", "m", "y"})
    /\ ~(AllDigits(c) /\ Len(c) <= 3)
    /\ ~MatchesHeader(c)

\* FB_Scraper_V2.py: ui_elements
ui_elements ==
    {<<"l", "i", "k", "e">>,
    <<"r", "e", "p", "l", "y">>,
    <<"s", "h", "a", "r", "e">>,
    <<"v", "i", "e", "w">>,
    <<"h", "i", "d", "e">>,
    <<"e", "d", "i", "t", "e", "d">>,
    <<"t", "r", "a", "n", "s", "l", "a", "t", "e", "d">>,
    <<"w", "r", "i", "t", "e", " ", "a", " ", "c", "o", "m", "m", "e", "n", "t">>,
    <<"m", "o", "s", "t", " ", "r", "e", "l", "e", "v", "a", "n", "t">>,
    <<"a", "u", "t", "h", "o", "r">>,
    <<"t", "o", "p", " ", "f", "a", "n">>}

\* the alternatives of the unit group of the first timestamp pattern
TimeUnits ==
    {<<"w">>,
    <<"w", "e", "e", "k">>,
    <<"w", "e", "e", "k", "s">>,
    <<"d">>,
    <<"d", "a", "y">>,
    <<"d", "a", "y", "s">>,
    <<"h">>,
    <<"h", "o", "u", "r">>,
    <<"h", "o", "u", "r", "s">>,
    <<"m">>,
    <<"m", "i", "n", "u", "t", "e">>,
    <<"m", "i", "n", "u", "t", "e", "s">>,
    <<"s">>,
    <<"s", "e", "c", "o", "n", "d">>,
    <<"s", "e", "c", "o", "n", "d", "s">>,
    <<"m", "o", "n", "t", "h">>,
    <<"m", "o", "n", "t", "h", "s">>,
    <<"y", "e", "a", "r">>,
    <<"y", "e", "a", "r", "s">>}

W_ago == <<"a", "g", "o">>
W_just_now == <<"j", "u", "s", "t", " ", "n", "o", "w">>
W_yesterday == <<"y", "e", "s", "t", "e", "r", "d", "a", "y">>

\* ^\d+\s*(w|weeks?|...|years?)\s*ago$ under re.IGNORECASE
MatchesAgo(c) ==
    LET l == Lower(c)
        r == LStrip(DropDigits(l))
    IN  /\ l # <<>>
        /\ IsDigit(Head(l))
        /\ \E u \in TimeUnits :
               StartsWith(r, u) /\ LStrip(Drop(r, Len(u))) = W_ago

\* re.sub(r'@\w+', '', s)
RECURSIVE RemoveMentions(_)
RemoveMentions(s) ==
    IF s = <<>> THEN <<>>
    ELSE IF Head(s) = "@" /\ WordRun(Tail(s)) > 0
         THEN RemoveMentions(Drop(Tail(s), WordRun(Tail(s))))
         ELSE <<Head(s)>> \o RemoveMentions(Tail(s))

\* re.sub(r'@\s+\w+', '', s)
RECURSIVE RemoveSpacedMentions(_)
RemoveSpacedMentions(s) ==
    IF s = <<>> THEN <<>>
    ELSE LET r == LStrip(Tail(s)) IN
         IF Head(s) = "@" /\ r # Tail(s) /\ WordRun(r) > 0
         THEN RemoveSpacedMentions(Drop(r, WordRun(r)))
         ELSE <<Head(s)>> \o RemoveSpacedMentions(Tail(s))

\* the words of \b(like|reply|share|view|hide)\b
stripped_words ==
    {<<"l", "i", "k", "e">>,
    <<"r", "e", "p", "l", "y">>,
    <<"s", "h", "a", "r", "e">>,
    <<"v", "i", "e", "w">>,
    <<"h", "i", "d", "e">>}

\* re.sub(r'\b(like|reply|share|view|hide)\b', '', s, flags=re.IGNORECASE):
\* a run of \w characters is removed when it is one of the words
RECURSIVE RemoveUiWords(_)
RemoveUiWords(s) ==
    IF s = <<>> THEN <<>>
    ELSE IF IsWordChar(Head(s))
         THEN LET n == WordRun(s)
                  w == SubSeq(s, 1, n)
              IN  (IF Lower(w) \in stripped_words THEN <<>> ELSE w)
                      \o RemoveUiWords(Drop(s, n))
         ELSE <<Head(s)>> \o RemoveUiWords(Tail(s))

\* the characters of [\d\s\.\,\!\?\-\+\=\*\(\)\[\]]
IsCountChar(c) ==
    \/ IsDigit(c)
    \/ IsSpace(c)
    \/ c \in {".", ",", "!", "?", "-", "+", "=", "*", "(", ")", "[", "]"}

\* FB_Scraper_V2.py: test_text of is_meaningful_text
TestText(c) == Strip(RemoveUiWords(RemoveSpacedMentions(RemoveMentions(c))))

\* variant: len(test_text) >= 3
is_meaningful_text_v2_ThreeChars(t, commenter_name) ==
    LET c == Strip(t) IN
    /\ c # <<>>
    /\ Lower(c) # Lower(commenter_name)
    /\ Lower(c) \notin ui_elements
    /\ ~MatchesAgo(c)
    /\ ~MatchesAge(c, {"w", "d", "h", "m", "s"})
    /\ Lower(c) \notin {W_just_now, W_yesterday}
    /\ ~AllDigits(c)
    /\ Len(TestText(c)) >= 3
    /\ \E k \in 1..Len(TestText(c)) : ~IsCountChar(TestText(c)[k])

\* FB_Scraper_V2.py: is_meaningful_text
is_meaningful_text_v2(t, commenter_name) ==
    LET c == Strip(t) IN
    /\ c # <<>>
    /\ Lower(c) # Lower(commenter_name)
    /\ Lower(c) \notin ui_elements
    /\ ~MatchesAgo(c)
    /\ ~MatchesAge(c, {"w", "d", "h", "m", "s"})
    /\ Lower(c) \notin {W_just_now, W_yesterday}
    /\ ~AllDigits(c)
    /\ Len(TestText(c)) >= 2
    /\ \E k \in 1..Len(TestText(c)) : ~IsCountChar(TestText(c)[k])

\* the name extract_comment_info passes on: none of the texts of RawTexts
T_name == <<"B", "o", "b">>

\* scraper.py / scraper_full.py: comment_text of one article (<<>>: skipped)
CommentText(e, t) ==
    IF e.fails THEN <<>>
    ELSE IF t = "POST" /\ e.aria = "none" /\ ~e.link THEN <<>>
    ELSE IF t # "POST" /\ e.aria # "comment" THEN <<>>
    ELSE IF is_meaningful_text(e.text) THEN Strip(e.text)
    ELSE <<>>

\* FB_Scraper_V2.py: the text returned by extract_comment_info (<<>>: "")
extract_comment_info(e) ==
    IF e.fails \/ e.text = <<>> THEN <<>>
    ELSE IF e.sticker THEN <<"[">> \o e.text \o <<"]">>
    ELSE LET t == Strip(SquashRuns(Strip(e.text))) IN
         IF is_meaningful_text_v2(t, T_name) THEN t ELSE <<>>

\* the texts of the comments that are new in every cycle of the loop check
Letters == <<"a", "b", "c", "d", "e", "f", "g", "h">>

\* a text that differs from the texts of the k records accepted so far
FreshText(k) ==
    <<Letters[(k \div Len(Letters)) + 1], Letters[(k % Len(Letters)) + 1]>>

FreshElements ==
    {Element(FreshText(k), "comment", FALSE, FALSE, FALSE) :
        k \in 0..(Len(Letters) * Len(Letters) - 1)}

\* the text each file reads from each element, computed once
ElementTexts ==
    [i \in Impls, t \in Types, e \in Elements \cup FreshElements |->
        IF i = "v2" THEN extract_comment_info(e) ELSE CommentText(e, t)]

ElementText(e) == ElementTexts[impl, url_type, e]

\* variant: scraper.py looks up and marks the text as it was read
DedupKey_Raw(text) == text

\* the key looked up in processed_texts
DedupKey(text) ==
    IF impl = "v2" THEN text ELSE JoinSplit(text)

\* variant: the record is inserted at the head of the list
TryAdd_AtHead(e) ==
    LET text == ElementText(e)
        key  == DedupKey(text)
    IN  IF text = <<>> \/ key \in processed_texts
        THEN UNCHANGED <<all_comments, processed_texts>>
        ELSE /\ processed_texts' = processed_texts \cup {key}
             /\ all_comments' = <<[URL |-> urlIdx, Comment |-> text]>> \o all_comments

\* the body of "for article in articles" from the dedup test on
TryAdd(e) ==
    LET text == ElementText(e)
        key  == DedupKey(text)
    IN  IF text = <<>> \/ key \in processed_texts
        THEN UNCHANGED <<all_comments, processed_texts>>
        ELSE /\ processed_texts' = processed_texts \cup {key}
             /\ all_comments' = Append(all_comments,
                                       [URL |-> urlIdx, Comment |-> text])

WouldAccept(e) ==
    ElementText(e) # <<>> /\ DedupKey(ElementText(e)) \notin processed_texts

\* pandas drop_duplicates(subset=['Comment'], keep='first')
RECURSIVE DropDuplicates(_)
DropDuplicates(rows) ==
    IF rows = <<>> THEN <<>>
    ELSE LET init == DropDuplicates(SubSeq(rows, 1, Len(rows) - 1))
             last == rows[Len(rows)]
         IN  IF \E i \in 1..Len(init) : init[i].Comment = last.Comment
             THEN init ELSE Append(init, last)

-----------------------------------------------------------------------------
\* State after construction (__init__)

Init ==
    /\ impl \in Impls
    /\ pc = "idle"
    /\ urlIdx = 0
    /\ url_type = "NONE"
    /\ cycle = 0
    /\ step = 0
    /\ no_new_streak = 0
    /\ cycle_start = 0
    /\ view_more_clicked = FALSE
    /\ articles = 0
    /\ all_comments = <<>>
    /\ processed_texts = {}
    /\ should_stop = FALSE
    /\ browserOpen = FALSE
    /\ pages = {}
    /\ page = -1
    /\ failed_urls = {}
    /\ success_count = 0
    /\ written = FALSE
    /\ output = <<>>
    /\ result = "none"
    /\ view_more_fired = FALSE
    /\ opsAfterStop = 0
    /\ fn = "none"
    /\ arg = [none |-> TRUE]
    /\ ret = [none |-> TRUE]
    /\ page_url_type = "NONE"
    /\ container = "none"
    /\ buttons = {}
    /\ clicks = 0
    /\ expanded_buttons = {}
    /\ round_num = 0
    /\ revealed = {}
    /\ scrolled = NotScrolled
    /\ clicked = 0
    /\ caught = FALSE
    /\ inflight = FALSE
    /\ stopped_at = 0

loopVars   == <<cycle, step, no_new_streak, cycle_start, view_more_clicked, articles,
                view_more_fired, revealed, scrolled, clicked, caught>>
storeVars  == <<all_comments, processed_texts>>
browserVars == <<browserOpen, pages, page>>
outVars    == <<written, output, result>>

CurStep == IF pc = "cycle" THEN CycleSteps(impl, url_type)[step] ELSE "none"

\* leaving "async with async_playwright()": the driver and its browser end
LeaveBrowser == browserOpen' = FALSE /\ pages' = {} /\ page' = -1

\* an exception leaves run() / run_scraper(): nothing after it is executed
Raised ==
    /\ pc' = "done"
    /\ result' = "raised"
    /\ LeaveBrowser
    /\ UNCHANGED <<written, output>>

\* variant: the except branch leaves the loop over the URLs
UrlError_LeavesLoop ==
    /\ failed_urls' = failed_urls \cup {urlIdx}
    /\ pc' = "close_browser"
    /\ UNCHANGED success_count

\* the except branch around one URL: scraper.py scrape_url, scraper_full.py
\* run, FB_Scraper_V2.py scrape_single_url (returns False)
UrlError ==
    /\ failed_urls' = failed_urls \cup {urlIdx}
    /\ pc' = IF impl = "v2" THEN "after_url" ELSE "close_page"
    /\ UNCHANGED success_count

\* scrape_post / scrape_watch / scrape_reel return normally
UrlDone ==
    /\ pc' = IF impl = "v2" THEN "after_url" ELSE "close_page"
    /\ success_count' = IF impl = "v2" THEN success_count + 1 ELSE success_count
    /\ UNCHANGED failed_urls

\* a reveal action or a scan query is started while should_stop is set (the
\* count stays at two from the second one on)
OpStarted ==
    opsAfterStop' = IF should_stop /\ opsAfterStop < 2 THEN opsAfterStop + 1
                    ELSE opsAfterStop

\* stop()
Stop ==
    /\ impl = "scraper"
    /\ pc # "done"
    /\ ~should_stop
    /\ should_stop' = TRUE
    /\ stopped_at' = Len(all_comments)
    /\ UNCHANGED <<fnVars, inflight, page_url_type, domVars, impl, pc, urlIdx, url_type,
                   loopVars, storeVars, browserVars,
                   failed_urls, success_count, outVars, opsAfterStop>>

\* entry of scrape_urls / run / run_scraper
Start ==
    /\ pc = "idle"
    /\ pc' = "launch"
    /\ urlIdx' = 1
    /\ IF impl = "scraper"
       THEN all_comments' = <<>> /\ processed_texts' = {} /\ should_stop' = FALSE
       ELSE UNCHANGED <<all_comments, processed_texts, should_stop>>
    /\ UNCHANGED <<fnVars, inflight, stopped_at, page_url_type, domVars, impl, url_type,
                   loopVars, browserVars, failed_urls,
                   success_count, outVars, opsAfterStop>>

\* launch, new_context, add_cookies; FB_Scraper_V2.py also opens its one page
\* and tests the login
Launch ==
    /\ pc = "launch"
    /\ \E outcome \in {"ok", "error", "login"} :
         /\ outcome = "login" => impl = "v2"
         /\ CASE outcome = "ok" ->
                   /\ browserOpen' = TRUE
                   /\ pages' = IF impl = "v2" THEN {0} ELSE {}
                   /\ page' = IF impl = "v2" THEN 0 ELSE -1
                   /\ pc' = IF impl = "scraper" THEN "health" ELSE "url_top"
                   /\ UNCHANGED outVars
              [] outcome = "login" ->
                   /\ LeaveBrowser
                   /\ pc' = "done"
                   /\ result' = "not_logged_in"
                   /\ UNCHANGED <<written, output>>
              [] outcome = "error" ->
                   IF impl = "scraper"
                   THEN /\ pc' = "except"
                        /\ LeaveBrowser
                        /\ UNCHANGED outVars
                   ELSE Raised
    /\ UNCHANGED <<fnVars, inflight, stopped_at, page_url_type, domVars, impl, urlIdx,
                   url_type, loopVars, storeVars, should_stop,
                   failed_urls, success_count, opsAfterStop>>

\* scraper.py: the health check on a test page
HealthCheck ==
    /\ pc = "health"
    /\ \E ok \in BOOLEAN :
         IF ok THEN pc' = "url_top" /\ UNCHANGED browserVars
         ELSE pc' = "except" /\ LeaveBrowser
    /\ UNCHANGED <<fnVars, inflight, stopped_at, page_url_type, domVars, impl, urlIdx,
                   url_type, loopVars, storeVars, should_stop,
                   failed_urls, success_count, outVars, opsAfterStop>>

\* top of "for idx, url in enumerate(urls, 1)" and the entry of scrape_url /
\* scrape_single_url
UrlTop(n) ==
    /\ pc = "url_top"
    /\ IF urlIdx > n \/ (impl = "scraper" /\ should_stop)
       THEN /\ pc' = "close_browser"
            /\ UNCHANGED <<url_type, processed_texts, expanded_buttons>>
       ELSE IF impl = "v2"
       THEN /\ pc' = "goto"
            /\ processed_texts' = {}
            /\ expanded_buttons' = {}
            /\ url_type' = "NONE"
       ELSE /\ pc' = "new_page"
            /\ url_type' \in Types
            /\ UNCHANGED <<processed_texts, expanded_buttons>>
    /\ UNCHANGED <<fnVars, inflight, stopped_at, page_url_type, container, buttons,
                   clicks, round_num,
                   impl, urlIdx, loopVars, all_comments, should_stop,
                   browserVars, failed_urls, success_count, outVars, opsAfterStop>>

\* page = await context.new_page()
NewPage ==
    /\ pc = "new_page"
    /\ \E ok \in BOOLEAN :
         IF ok
         THEN /\ pages' = pages \cup {urlIdx}
              /\ page' = urlIdx
              /\ pc' = "goto"
              /\ UNCHANGED <<browserOpen, failed_urls, outVars>>
         ELSE IF impl = "scraper"
         THEN /\ failed_urls' = failed_urls \cup {urlIdx}
              /\ pc' = "close_page"
              /\ page' = -1
              /\ UNCHANGED <<browserOpen, pages, outVars>>
         ELSE Raised /\ UNCHANGED failed_urls
    /\ UNCHANGED <<fnVars, inflight, stopped_at, page_url_type, domVars, impl, urlIdx,
                   url_type, loopVars, storeVars, should_stop,
                   success_count, opsAfterStop>>

\* scraper.py: "if self.should_stop: break" at the top of the loop body
LoopStopped == impl = "scraper" /\ should_stop

\* the top of "for cycle in range(1, max_cycles + 1)" for cycle number c
EnterCycle(c, streak) ==
    IF c \notin CycleRange(impl, url_type) \/ LoopStopped
    THEN /\ UrlDone
         /\ no_new_streak' = streak
         /\ UNCHANGED <<cycle, step, cycle_start, view_more_clicked, articles,
                        view_more_fired, revealed, scrolled, clicked, caught>>
    ELSE /\ pc' = "cycle"
         /\ cycle' = c
         /\ step' = 1
         /\ cycle_start' = Len(all_comments)
         /\ no_new_streak' = streak
         /\ revealed' = {}
         /\ scrolled' = NotScrolled
         /\ clicked' = 0
         /\ caught' = FALSE
         /\ UNCHANGED <<view_more_clicked, articles, view_more_fired, failed_urls,
                        success_count>>

\* go on n steps in the body of the cycle
Advance(n) ==
    IF step + n <= Len(CycleSteps(impl, url_type))
    THEN pc' = "cycle" /\ step' = step + n
    ELSE pc' = "cycle_end" /\ step' = step

\* page.goto(url) and the reading of the caption; the browser settles on a
\* URL whose type is "settled" (redirects: it can be another type than that of
\* the URL that was asked for). FB_Scraper_V2.py classifies page.url after it;
\* scraper.py and scraper_full.py keep the type of the URL of the list
Goto(redirects) ==
    /\ pc = "goto"
    /\ \E ok \in BOOLEAN, settled \in Types :
         IF ok
         THEN /\ pc' = "locate"
              /\ page_url_type' = settled
              /\ IF impl = "v2" THEN url_type' = settled
                 ELSE /\ settled # url_type => redirects
                      /\ UNCHANGED url_type
              /\ UNCHANGED <<failed_urls, success_count>>
         ELSE UrlError /\ UNCHANGED <<url_type, page_url_type>>
    /\ UNCHANGED <<fnVars, inflight, stopped_at, domVars, impl, urlIdx, loopVars, storeVars,
                   should_stop, browserVars, outVars, opsAfterStop>>

\* finding the container of the comments
Locate ==
    /\ pc = "locate"
    /\ \E outcome \in {"found", "notfound", "error"} :
         /\ (impl # "v2" /\ url_type # "POST") => outcome # "notfound"
         /\ (impl = "v2" /\ url_type = "WATCH") => outcome # "error"
         /\ CASE outcome = "found"    -> EnterCycle(1, 0) /\ container' = "attached"
              [] outcome = "notfound" -> UrlDone /\ UNCHANGED <<loopVars, container>>
              [] outcome = "error"    -> UrlError /\ UNCHANGED <<loopVars, container>>
    /\ UNCHANGED <<fnVars, inflight, stopped_at, page_url_type, buttons, clicks,
                   expanded_buttons, round_num,
                   impl, urlIdx, url_type, storeVars, should_stop,
                   browserVars, outVars, opsAfterStop>>

\* scraper.py, scraper_full.py: document.querySelector(dialogSelector) of the
\* scripts of a POST finds no node once the container is detached ("if
\* (!dialog) return ..."); the other selectors are not tied to the node that
\* was located and match whatever node fits them
NoNode == impl # "v2" /\ url_type = "POST" /\ container = "detached"

\* the reveal action "kind" fired in the current cycle
Fired(kind, did) == revealed' = IF did THEN revealed \cup {kind} ELSE revealed

\* a click on the control b: the page goes on showing it, or not
Clicked(b, did) ==
    \E stays \in BOOLEAN :
      buttons' = IF did /\ ~stays THEN buttons \ {b} ELSE buttons

\* the controls that the load-more script of a POST takes for "view more
\* comments": "View more comments" and "View previous comments"
MoreControls == {"more", "previous"}

\* the click on "View more comments" (hit: FB_Scraper_V2.py finds the control
\* by one of its selectors and the click lands)
LoadMore(batches) ==
    /\ CurStep = "load_more"
    /\ IF impl = "scraper" /\ url_type # "POST" /\ should_stop
       THEN /\ Advance(1)
            /\ clicked' = 0
            /\ UNCHANGED <<view_more_clicked, view_more_fired, failed_urls,
                           success_count, opsAfterStop, revealed, buttons>>
       ELSE /\ OpStarted
            /\ \E ok \in BOOLEAN, hit \in BOOLEAN :
                 IF impl = "v2"
                 THEN /\ hit => cycle <= batches
                      /\ view_more_clicked' = (ok /\ hit)
                      /\ view_more_fired' = (view_more_fired \/ (ok /\ hit))
                      /\ Fired("load_more", ok /\ hit)
                      /\ clicked' = IF ok /\ hit THEN 1 ELSE 0
                      /\ Advance(1)
                      /\ UNCHANGED <<failed_urls, success_count, buttons>>
                 ELSE LET found == IF NoNode THEN {}
                                   ELSE IF url_type = "POST"
                                   THEN buttons \cap MoreControls
                                   ELSE buttons \cap {"more"}
                      IN  /\ ~hit
                          /\ UNCHANGED <<view_more_clicked, view_more_fired>>
                          /\ IF ok
                             THEN /\ Advance(1)
                                  /\ clicked' = Cardinality(found)
                                  /\ Fired("load_more", found # {})
                                  /\ \E gone \in SUBSET found :
                                       buttons' = buttons \ gone
                                  /\ UNCHANGED <<failed_urls, success_count>>
                             ELSE /\ UrlError
                                  /\ UNCHANGED <<step, revealed, buttons, clicked>>
    /\ UNCHANGED <<fnVars, inflight, stopped_at, page_url_type, container, clicks,
                   expanded_buttons, round_num,
                   scrolled, caught, impl, urlIdx, url_type, cycle, no_new_streak,
                   cycle_start, articles, storeVars, should_stop, browserVars, outVars>>

\* one more click on the reply control
CountClick(did) == clicks' = IF did THEN Min(clicks + 1, 2) ELSE clicks

\* expand_all_replies: the controls of this round whose button_id is not in
\* self.expanded_buttons
buttons_to_click ==
    {b \in buttons \cap {"replies"} :
       button_id(ReplyText, round_num, ReplyTop) \notin expanded_buttons}

\* FB_Scraper_V2.py: one round of "for round_num in range(max_rounds)" of
\* expand_all_replies (ok: the query for the buttons does not raise); every
\* click lands
ExpandRound ==
    \E ok \in BOOLEAN :
      IF ~ok
      THEN /\ UrlError
           /\ round_num' = 0
           /\ UNCHANGED <<step, buttons, clicks, expanded_buttons, revealed>>
      ELSE IF buttons_to_click = {}
      THEN /\ Advance(1)
           /\ round_num' = 0
           /\ UNCHANGED <<buttons, clicks, expanded_buttons, revealed, failed_urls,
                          success_count>>
      ELSE /\ CountClick(TRUE)
           /\ expanded_buttons' =
                 expanded_buttons \cup {button_id(ReplyText, round_num, ReplyTop)}
           /\ Fired("expand", TRUE)
           /\ Clicked("replies", TRUE)
           /\ IF round_num + 1 < max_rounds
              THEN round_num' = round_num + 1 /\ UNCHANGED <<pc, step>>
              ELSE round_num' = 0 /\ Advance(1)
           /\ UNCHANGED <<failed_urls, success_count>>

\* scraper.py, scraper_full.py: the script of expand_replies_post / _watch /
\* _reel clicks every reply control it finds
ExpandScript ==
    \E ok \in BOOLEAN :
      LET expanded == IF "replies" \in buttons /\ ~NoNode THEN 1 ELSE 0
      IN  IF ok
          THEN /\ Advance(1)
               /\ CountClick(expanded > 0)
               /\ Fired("expand", expanded > 0)
               /\ Clicked("replies", expanded > 0)
               /\ UNCHANGED <<failed_urls, success_count, expanded_buttons, round_num>>
          ELSE /\ UrlError
               /\ UNCHANGED <<step, buttons, clicks, expanded_buttons, round_num,
                              revealed>>

\* expand_replies_post / _watch / _reel, expand_all_replies
Expand ==
    /\ CurStep = "expand"
    /\ IF impl = "scraper" /\ should_stop
       THEN /\ Advance(1)
            /\ UNCHANGED <<failed_urls, success_count, opsAfterStop, buttons, clicks,
                           expanded_buttons, round_num, revealed>>
       ELSE /\ OpStarted
            /\ IF impl = "v2" THEN ExpandRound ELSE ExpandScript
    /\ UNCHANGED <<fnVars, inflight, stopped_at, page_url_type, container, scrolled,
                   clicked, caught, impl, urlIdx,
                   url_type,
                   cycle, no_new_streak, cycle_start, view_more_clicked,
                   view_more_fired, articles, storeVars, should_stop, browserVars,
                   outVars>>

\* the query for the comment elements of one scan
ScanBegin(most) ==
    /\ CurStep = "scan_begin"
    /\ IF impl = "scraper" /\ url_type = "POST" /\ should_stop
       THEN /\ Advance(2)
            /\ UNCHANGED <<articles, failed_urls, success_count, opsAfterStop>>
       ELSE /\ OpStarted
            /\ \E ok \in BOOLEAN, n \in 0..most :
                 /\ impl = "v2" => ok
                 /\ NoNode => n = 0
                 /\ IF ok
                    THEN /\ articles' = n
                         /\ Advance(IF n = 0 THEN 2 ELSE 1)
                         /\ UNCHANGED <<failed_urls, success_count>>
                    ELSE UrlError /\ UNCHANGED <<step, articles>>
    /\ UNCHANGED <<fnVars, inflight, stopped_at, page_url_type, domVars, revealed,
                   scrolled, clicked, caught,
                   impl, urlIdx, url_type, cycle, no_new_streak, cycle_start,
                   view_more_clicked, view_more_fired, storeVars, should_stop,
                   browserVars, outVars>>

\* variant: a stop in the middle of the scan raises for the elements left
ScanElement_StopRaises(shown) ==
    /\ CurStep = "scan"
    /\ articles > 0
    /\ inflight' = FALSE
    /\ IF impl = "scraper" /\ should_stop /\ ~inflight
       THEN /\ UNCHANGED articles
            /\ UrlError
            /\ caught' = FALSE
            /\ UNCHANGED <<step, storeVars>>
       ELSE \E e \in shown :
              /\ TryAdd(e)
              /\ articles' = articles - 1
              /\ IF articles = 1
                 THEN Advance(1) /\ caught' = FALSE
                 ELSE UNCHANGED <<pc, step>> /\ caught' = (caught \/ e.fails)
              /\ UNCHANGED <<failed_urls, success_count>>
    /\ UNCHANGED <<fnVars, stopped_at, page_url_type, domVars, revealed, scrolled,
                   clicked, impl, urlIdx,
                   url_type, cycle, no_new_streak, cycle_start,
                   view_more_clicked, view_more_fired, should_stop, browserVars,
                   outVars, opsAfterStop>>

\* variant: the loop of the scan has no "if self.should_stop: break"
ScanElement_NoBreak(shown) ==
    /\ CurStep = "scan"
    /\ articles > 0
    /\ inflight' = FALSE
    /\ \E e \in shown :
         /\ TryAdd(e)
         /\ articles' = articles - 1
         /\ IF articles = 1
            THEN Advance(1) /\ caught' = FALSE
            ELSE UNCHANGED <<pc, step>> /\ caught' = (caught \/ e.fails)
    /\ UNCHANGED <<fnVars, stopped_at, page_url_type, domVars, revealed, scrolled, clicked,
                   impl, urlIdx, url_type, cycle, no_new_streak, cycle_start,
                   view_more_clicked, view_more_fired, should_stop, browserVars,
                   failed_urls, success_count, outVars, opsAfterStop>>

\* variant: the error of an element is not caught in the loop body and
\* leaves the scan
ScanElement_ErrorRaises(shown) ==
    /\ CurStep = "scan"
    /\ articles > 0
    /\ inflight' = FALSE
    /\ IF impl = "scraper" /\ should_stop /\ ~inflight
       THEN /\ UNCHANGED articles
            /\ Advance(1)
            /\ caught' = FALSE
            /\ UNCHANGED <<storeVars, failed_urls, success_count>>
       ELSE \E e \in shown :
              /\ articles' = articles - 1
              /\ IF e.fails
                 THEN UrlError /\ caught' = TRUE /\ UNCHANGED <<step, storeVars>>
                 ELSE /\ TryAdd(e)
                      /\ IF articles = 1
                         THEN Advance(1) /\ caught' = FALSE
                         ELSE UNCHANGED <<pc, step>> /\ caught' = caught
                      /\ UNCHANGED <<failed_urls, success_count>>
    /\ UNCHANGED <<fnVars, stopped_at, page_url_type, domVars, revealed, scrolled,
                   clicked, impl,
                   urlIdx, url_type, cycle, no_new_streak, cycle_start,
                   view_more_clicked, view_more_fired, should_stop, browserVars,
                   outVars, opsAfterStop>>

\* scraper.py: an iteration of "for article in articles" passes "if
\* self.should_stop: break" and is suspended at an await of the processing of
\* its element
ScanEnter ==
    /\ impl = "scraper"
    /\ CurStep = "scan"
    /\ articles > 0
    /\ ~inflight
    /\ ~should_stop
    /\ inflight' = TRUE
    /\ UNCHANGED <<fnVars, stopped_at, page_url_type, domVars, impl, pc, urlIdx, url_type,
                   loopVars, storeVars, should_stop, browserVars, failed_urls,
                   success_count, outVars, opsAfterStop>>

\* one iteration of "for article in articles" / "for element in all_elements"
\* (the rest of it, if the iteration was suspended); an element whose reading
\* raises is left out by "except Exception: continue"
ScanElement(shown) ==
    /\ CurStep = "scan"
    /\ articles > 0
    /\ inflight' = FALSE
    /\ IF impl = "scraper" /\ should_stop /\ ~inflight
       THEN /\ UNCHANGED articles
            /\ Advance(1)
            /\ caught' = FALSE
            /\ UNCHANGED storeVars
       ELSE \E e \in shown :
              /\ TryAdd(e)
              /\ articles' = articles - 1
              /\ IF articles = 1
                 THEN Advance(1) /\ caught' = FALSE
                 ELSE UNCHANGED <<pc, step>> /\ caught' = (caught \/ e.fails)
    /\ UNCHANGED <<fnVars, stopped_at, page_url_type, domVars, revealed, scrolled,
                   clicked, impl, urlIdx,
                   url_type, cycle, no_new_streak, cycle_start,
                   view_more_clicked, view_more_fired, should_stop, browserVars,
                   failed_urls, success_count, outVars, opsAfterStop>>

\* the scroll of the container of a POST. offsets: the pairs <<scrollTop of
\* the scrollable element, target of the scroll>> the page can give; found:
\* there is a scrollable element. FB_Scraper_V2.py sets scrollTop to
\* scrollHeight and drops the answer of the script
Scroll(offsets) ==
    /\ CurStep = "scroll"
    /\ OpStarted
    /\ \E ok \in BOOLEAN, found \in BOOLEAN, o \in offsets :
         LET answer == IF ~found \/ NoNode THEN NotScrolled
                       ELSE IF impl = "v2" THEN ScrollScript(o[1], ScrollMax, ScrollMax)
                       ELSE ScrollScript(o[1], ScrollMax, o[2])
         IN  IF ~ok THEN UrlError /\ UNCHANGED <<step, scrolled, revealed>>
             ELSE /\ IF impl # "v2" /\ answer.scrolled THEN Advance(1)
                     ELSE pc' = "cycle_end" /\ UNCHANGED step
                  /\ scrolled' = IF impl = "v2" THEN scrolled ELSE answer
                  /\ Fired("scroll", answer.to > answer.from)
                  /\ UNCHANGED <<failed_urls, success_count>>
    /\ UNCHANGED <<fnVars, inflight, stopped_at, page_url_type, domVars, impl, urlIdx,
                   url_type, cycle,
                   no_new_streak, cycle_start, clicked, caught,
                   view_more_clicked, view_more_fired, articles, storeVars, should_stop,
                   browserVars, outVars>>

\* variant: the first cycle does not count for the streak
NextStreak_SkipFirst(zero) == IF zero /\ cycle > 1 THEN no_new_streak + 1 ELSE 0

\* variant: every cycle counts for the streak
NextStreak_Always(zero) == no_new_streak + 1

\* "if cycle_new == 0 [and not view_more_clicked]: no_new_streak += 1" and
\* "else: no_new_streak = 0"
NextStreak(zero) == IF zero THEN no_new_streak + 1 ELSE 0

\* the end of the loop body: cycle_new, the streak and the breaks
CycleEnd ==
    /\ pc = "cycle_end"
    /\ \E ok \in BOOLEAN, probe \in BOOLEAN :
         LET cycle_new == Len(all_comments) - cycle_start
             probing   == impl = "v2" /\
                          \/ url_type = "POST"
                          \/ url_type = "WATCH" /\ cycle = 1 /\ cycle_new = 0
             first     == /\ impl = "v2" /\ cycle = 1 /\ cycle_new = 0
                          /\ url_type = "WATCH" => ~probe
             at_end    == impl = "v2" /\ url_type = "POST" /\ probe /\ cycle_new = 0
             zero      == /\ cycle_new = 0
                          /\ (impl = "v2" /\ url_type # "POST") => ~view_more_clicked
             streak    == NextStreak(zero)
         IN  /\ ~probing => (ok /\ probe)
             /\ IF ~ok THEN UrlError /\ UNCHANGED loopVars
                ELSE IF first \/ at_end
                THEN UrlDone /\ UNCHANGED loopVars
                ELSE IF streak >= StreakThreshold(impl, url_type)
                THEN /\ UrlDone
                     /\ no_new_streak' = streak
                     /\ UNCHANGED <<cycle, step, cycle_start, view_more_clicked,
                                    articles, view_more_fired, revealed, scrolled, clicked, caught>>
                ELSE EnterCycle(cycle + 1, streak)
    /\ UNCHANGED <<fnVars, inflight, stopped_at, page_url_type, domVars, impl, urlIdx,
                   url_type,
                   storeVars, should_stop, browserVars, outVars, opsAfterStop>>

\* the finally branch: await page.close()
ClosePage ==
    /\ pc = "close_page"
    /\ IF page = -1
       THEN pc' = "after_url" /\ UNCHANGED <<browserVars, outVars>>
       ELSE \E ok \in BOOLEAN, gone \in BOOLEAN :
              IF ok
              THEN /\ pages' = pages \ {page}
                   /\ page' = -1
                   /\ pc' = "after_url"
                   /\ UNCHANGED <<browserOpen, outVars>>
              ELSE IF impl = "scraper"
              THEN /\ pages' = IF gone THEN pages \ {page} ELSE pages
                   /\ page' = -1
                   /\ pc' = "after_url"
                   /\ UNCHANGED <<browserOpen, outVars>>
              ELSE Raised
    /\ UNCHANGED <<fnVars, inflight, stopped_at, page_url_type, domVars, impl, urlIdx,
                   url_type, loopVars, storeVars, should_stop,
                   failed_urls, success_count, opsAfterStop>>

\* the delay between two URLs and the step to the next one; the locals of
\* scrape_post / scrape_watch / scrape_reel are gone
AfterUrl ==
    /\ pc = "after_url"
    /\ pc' = "url_top"
    /\ urlIdx' = urlIdx + 1
    /\ url_type' = "NONE"
    /\ cycle' = 0 /\ step' = 0 /\ no_new_streak' = 0 /\ cycle_start' = 0
    /\ view_more_clicked' = FALSE /\ view_more_fired' = FALSE
    /\ page_url_type' = "NONE" /\ container' = "none" /\ buttons' = {}
    /\ clicks' = 0 /\ round_num' = 0 /\ revealed' = {} /\ scrolled' = NotScrolled
    /\ clicked' = 0 /\ caught' = FALSE
    /\ UNCHANGED <<fnVars, inflight, stopped_at, expanded_buttons, impl, articles,
                   storeVars, should_stop, browserVars,
                   failed_urls, success_count, outVars, opsAfterStop>>

\* await browser.close() and the exit of "async with async_playwright()"
CloseBrowser ==
    /\ pc = "close_browser"
    /\ \E outcome \in {"ok", "close_error", "exit_error"} :
         /\ outcome = "exit_error" => impl = "scraper"
         /\ IF outcome = "ok" \/ (impl = "scraper" /\ outcome = "close_error")
            THEN pc' = "save" /\ LeaveBrowser /\ UNCHANGED outVars
            ELSE IF impl = "scraper"
            THEN pc' = "except" /\ LeaveBrowser /\ UNCHANGED outVars
            ELSE Raised
    /\ UNCHANGED <<fnVars, inflight, stopped_at, page_url_type, domVars, impl, urlIdx,
                   url_type, loopVars, storeVars, should_stop,
                   failed_urls, success_count, opsAfterStop>>

\* "Save results" / save_results
Save ==
    /\ pc = "save"
    /\ pc' = "done"
    /\ IF all_comments = <<>>
       THEN result' = "no_comments" /\ UNCHANGED <<written, output>>
       ELSE /\ written' = TRUE
            /\ output' = IF impl = "v2" THEN DropDuplicates(all_comments)
                         ELSE all_comments
            /\ result' = "success"
    /\ UNCHANGED <<fnVars, inflight, stopped_at, page_url_type, domVars, impl, urlIdx,
                   url_type, loopVars, storeVars, should_stop,
                   browserVars, failed_urls, success_count, opsAfterStop>>

\* scraper.py: the except branch of scrape_urls
ExceptHandler ==
    /\ pc = "except"
    /\ pc' = "done"
    /\ IF all_comments = <<>>
       THEN result' = "error" /\ UNCHANGED <<written, output>>
       ELSE /\ written' = TRUE
            /\ output' = all_comments
            /\ result' = "success_warning"
    /\ UNCHANGED <<fnVars, inflight, stopped_at, page_url_type, domVars, impl, urlIdx,
                   url_type, loopVars, storeVars, should_stop,
                   browserVars, failed_urls, success_count, opsAfterStop>>

\* the elements a page shows while the run holds fewer than MaxComments records
Shown == {e \in Elements : WouldAccept(e) => Len(all_comments) < MaxComments}

Next ==
    \/ Stop
    \/ Start
    \/ Launch
    \/ HealthCheck
    \/ UrlTop(NumUrls)
    \/ NewPage
    \/ Goto(FALSE)
    \/ Locate
    \/ LoadMore(MaxLoadMore)
    \/ Expand
    \/ ScanBegin(MaxElems)
    \/ ScanElement(Shown)
    \/ Scroll({<<0, 2 * ScrollMax>>})
    \/ CycleEnd
    \/ ClosePage
    \/ AfterUrl
    \/ CloseBrowser
    \/ Save
    \/ ExceptHandler

Spec == Init /\ [][Next]_vars

-----------------------------------------------------------------------------
\* A run over one URL whose page can show a comment that was not seen before
\* in every cycle and whose "View more comments" button can be there in every
\* cycle, so that the cycle loop can run to the end of its range.

\* at most one comment that was not seen before per cycle, and an empty one
ShownLoop ==
    {Element(T_sp, "comment", FALSE, FALSE, FALSE)}
    \cup (IF Len(all_comments) < cycle
          THEN {Element(FreshText(Len(all_comments)), "comment", FALSE, FALSE, FALSE)}
          ELSE {})

NextLoop ==
    \/ Stop
    \/ Start
    \/ Launch
    \/ HealthCheck
    \/ UrlTop(1)
    \/ NewPage
    \/ Goto(FALSE)
    \/ Locate
    \/ LoadMore(MaxCycles(impl, url_type))
    \/ Expand
    \/ ScanBegin(MaxElems)
    \/ ScanElement(ShownLoop)
    \/ Scroll({<<0, 2 * ScrollMax>>})
    \/ CycleEnd
    \/ ClosePage
    \/ AfterUrl
    \/ CloseBrowser
    \/ Save
    \/ ExceptHandler

SpecLoop == Init /\ [][NextLoop]_vars

-----------------------------------------------------------------------------
\* A run over one URL whose page changes under the cycle loop: the browser can
\* be redirected to a URL of another type than the one of the list, reply
\* controls and "View more comments" come up, the scrollable element can be
\* at any offset and the container that was located can leave the document.

Controls == {"replies"} \cup MoreControls

\* the page renders the control b (FB_Scraper_V2.py looks for "View more
\* comments" by its own selectors: LoadMore)
Render ==
    /\ pc = "cycle"
    /\ \E b \in Controls \ buttons :
         /\ b \in MoreControls => impl # "v2"
         /\ buttons' = buttons \cup {b}
    /\ UNCHANGED <<fnVars, inflight, stopped_at, page_url_type, container, clicks,
                   expanded_buttons,
                   round_num, impl, pc, urlIdx, url_type, loopVars, storeVars,
                   should_stop, browserVars, failed_urls, success_count, outVars,
                   opsAfterStop>>

\* the page takes the container that was located out of the document
Detach ==
    /\ pc \in {"cycle", "cycle_end"}
    /\ container = "attached"
    /\ container' = "detached"
    /\ UNCHANGED <<fnVars, inflight, stopped_at, page_url_type, buttons, clicks,
                   expanded_buttons,
                   round_num, impl, pc, urlIdx, url_type, loopVars, storeVars,
                   should_stop, browserVars, failed_urls, success_count, outVars,
                   opsAfterStop>>

\* <<scrollTop, target>>: a scroll that moves on, one whose target lies above
\* the offset, and one of an element that is at its bottom
ScrollOffsets == {<<0, 2 * ScrollMax>>, <<50, 40>>, <<ScrollMax, 2 * ScrollMax>>}

\* an element without text and, until it is accepted, one comment
ShownReveal ==
    {Element(T_sp, "comment", FALSE, FALSE, FALSE)}
    \cup (IF all_comments = <<>>
          THEN {Element(T_ab, "comment", FALSE, FALSE, FALSE)}
          ELSE {})

NextReveal ==
    \/ Start
    \/ Launch
    \/ HealthCheck
    \/ UrlTop(1)
    \/ NewPage
    \/ Goto(TRUE)
    \/ Locate
    \/ Render
    \/ Detach
    \/ LoadMore(MaxLoadMore)
    \/ Expand
    \/ ScanBegin(MaxElems)
    \/ ScanElement(ShownReveal)
    \/ Scroll(ScrollOffsets)
    \/ CycleEnd
    \/ ClosePage
    \/ AfterUrl
    \/ CloseBrowser
    \/ Save
    \/ ExceptHandler

SpecReveal == Init /\ [][NextReveal]_vars

-----------------------------------------------------------------------------
\* A run over one URL whose scans hold several elements, one of which can
\* raise while it is read, and which stop() can interrupt between two elements.

\* the largest number of elements one query of a scan returns
ScanElems == 3

NextScan ==
    \/ Stop
    \/ Start
    \/ Launch
    \/ HealthCheck
    \/ UrlTop(1)
    \/ NewPage
    \/ Goto(FALSE)
    \/ Locate
    \/ LoadMore(MaxLoadMore)
    \/ Expand
    \/ ScanBegin(ScanElems)
    \/ ScanEnter
    \/ ScanElement(Shown)
    \/ Scroll({<<0, 2 * ScrollMax>>})
    \/ CycleEnd
    \/ ClosePage
    \/ AfterUrl
    \/ CloseBrowser
    \/ Save
    \/ ExceptHandler

SpecScan == Init /\ [][NextScan]_vars

TypeOK ==
    /\ impl \in Impls
    /\ urlIdx \in 0..(NumUrls + 1)
    /\ url_type \in Types \cup {"NONE"}
    /\ cycle \in 0..50
    /\ no_new_streak \in 0..4
    /\ articles \in 0..MaxElems
    /\ Len(all_comments) <= MaxComments
    /\ should_stop \in BOOLEAN
    /\ pages \subseteq 0..NumUrls

-----------------------------------------------------------------------------
\* Helper functions, called on their own

\* the variables of the scraping run, which a helper call leaves alone
runVars == <<impl, pc, urlIdx, url_type, cycle, step, no_new_streak, cycle_start,
             view_more_clicked, articles, all_comments, processed_texts,
             should_stop, browserOpen, pages, page, failed_urls, success_count,
             written, output, result, view_more_fired, opsAfterStop,
             page_url_type, container, buttons, clicks, expanded_buttons,
             round_num, revealed, scrolled, clicked, caught, inflight,
             stopped_at>>

\* a URL is a sequence of at most MaxUrlParts parts
MaxUrlParts == 2

\* the parts a URL is made of: the substrings the code looks for, some of them
\* in another letter case, and parts that hold none of them
UrlParts ==
    {"/watch/", "watch?v=", "/video/", "/videos/", "/live/", "/media/",
     "/reel/", "/reels/",
     "/posts/", "/permalink", "story.php", "/photo", "/photos/", "/groups/",
     "/Watch/", "/REEL/", "/Posts/", "/somepage", "/share/"}

Urls == UNION {[1..n -> UrlParts] : n \in 1..MaxUrlParts}

\* str.lower() of one part
LowerPart(p) ==
    CASE p = "/Watch/" -> "/watch/"
      [] p = "/REEL/"  -> "/reel/"
      [] p = "/Posts/" -> "/posts/"
      [] OTHER         -> p

\* pattern in part: the patterns that occur inside another part
Occurs(pattern, part) ==
    \/ pattern = part
    \/ pattern = "/photo" /\ part = "/photos/"

\* any(pattern in url_lower for pattern in patterns)
AnyIn(patterns, url) ==
    \E pattern \in patterns : \E k \in 1..Len(url) : Occurs(pattern, LowerPart(url[k]))

watch_patterns == {"/watch/", "watch?v=", "/video/", "/videos/", "/live/", "/media/"}
reel_patterns  == {"/reel/", "/reels/"}
post_patterns  == {"/posts/", "/permalink", "story.php", "/photo", "/photos/", "/groups/"}

\* determine_url_type: scraper.py and scraper_full.py test the watch and the
\* reel patterns and return POST otherwise; FB_Scraper_V2.py also tests the
\* post patterns and returns watch otherwise (its lower-case results are
\* written in upper case here)
determine_url_type(i, url) ==
    IF AnyIn(watch_patterns, url) THEN "WATCH"
    ELSE IF AnyIn(reel_patterns, url) THEN "REEL"
    ELSE IF i = "v2"
         THEN IF AnyIn(post_patterns, url) THEN "POST" ELSE "WATCH"
         ELSE "POST"

\* a call of determine_url_type, the one helper call of the behaviour
Classify ==
    \E url \in Urls :
        /\ fn = "none"
        /\ fn' = "determine_url_type"
        /\ arg' = [url |-> url]
        /\ ret' = [url_type |-> determine_url_type(impl, url)]
        /\ UNCHANGED runVars

\* the texts is_meaningful_text is called on: the UI words in some letter cases,
\* counts, timestamps, texts with mentions and UI words inside, plain comments
FnTexts ==
    {<<"l", "i", "k", "e">>,
    <<"r", "e", "p", "l", "y">>,
    <<"s", "h", "a", "r", "e">>,
    <<"v", "i", "e", "w">>,
    <<"h", "i", "d", "e">>,
    <<"e", "d", "i", "t", "e", "d">>,
    <<"t", "r", "a", "n", "s", "l", "a", "t", "e", "d">>,
    <<"w", "r", "i", "t", "e", " ", "a", " ", "c", "o", "m", "m", "e", "n", "t">>,
    <<"m", "o", "s", "t", " ", "r", "e", "l", "e", "v", "a", "n", "t">>,
    <<"a", "u", "t", "h", "o", "r">>,
    <<"t", "o", "p", " ", "f", "a", "n">>,
    <<"L", "I", "K", "E">>,
    <<"R", "e", "p", "l", "y">>,
    <<"V", "I", "E", "W">>,
    <<"H", "i", "d", "e">>,
    <<"T", "o", "p", " ", "F", "a", "n">>,
    <<"E", "d", "i", "t", "e", "d">>,
    <<"f", "o", "l", "l", "o", "w">>,
    <<"7">>,
    <<"1", "2", "3">>,
    <<"1", "2", "3", "4">>,
    <<"3", "h", " ", "a", "g", "o">>,
    <<"2", "d">>,
    <<"j", "u", "s", "t", " ", "n", "o", "w">>,
    <<"y", "e", "s", "t", "e", "r", "d", "a", "y">>,
    <<"Y", "e", "s", "t", "e", "r", "d", "a", "y">>,
    <<"J", "u", "s", "t", " ", "n", "o", "w">>,
    <<"5", " ", "m", "i", "n", "u", "t", "e", "s", " ", "a", "g", "o">>,
    <<"3", "H">>,
    <<"2", " ", "w", "e", "e", "k", "s", " ", "a", "g", "o">>,
    <<"4", "y">>,
    <<"o", "k">>,
    <<"@", "b", "o", "b", " ", "o", "k">>,
    <<"@", " ", "b", "o", "b", " ", "o", "k">>,
    <<"a", "1">>,
    <<"h", "i">>,
    <<"l", "i", "k", "e", " ", "i", "t">>,
    <<"M", "o", "s", "t", " ", "r", "e", "l", "e", "v", "a", "n", "t", " ", "f", "i", "r", "s", "t">>,
    <<"V", "i", "e", "w", " ", "3", " ", "r", "e", "p", "l", "i", "e", "s">>,
    <<"1", "2", " ", "3", "4">>,
    <<"!", "!">>,
    <<"B", "o", "b">>,
    <<"b", "o", "b">>,
    <<"@", "b", "o", "b">>,
    <<"x">>,
    <<>>,
    <<" ">>,
    <<"n", "i", "c", "e", " ", "p", "o", "s", "t">>,
    <<"v", "i", "e", "w", " ", "h", "i", "d", "e">>,
    <<"1", " ", "a">>,
    <<" ", "o", "k", " ">>}

\* the commenter names it is called with
FnNames == {T_name, <<"U", "n", "k", "n", "o", "w", "n">>}

\* a call of is_meaningful_text (scraper.py and scraper_full.py take no name)
Meaningful ==
    \E t \in FnTexts, n \in FnNames :
        /\ fn = "none"
        /\ fn' = "is_meaningful_text"
        /\ arg' = [text |-> t, name |-> n]
        /\ ret' = [meaningful |-> IF impl = "v2" THEN is_meaningful_text_v2(t, n)
                                  ELSE is_meaningful_text(t)]
        /\ UNCHANGED runVars

\* the Thai phrases of the labels, each written as one symbol of the text
TH_comment_by == "<khwamkhithen doi>"
TH_comment_from == "<khwamkhithen chak>"
TH_when == "<muea>"

W_Unknown == <<"U", "n", "k", "n", "o", "w", "n">>
W_Reply_by == <<"R", "e", "p", "l", "y", " ", "b", "y">>
W_Reply_by_ == <<"R", "e", "p", "l", "y", " ", "b", "y", " ">>
W_Comment_by == <<"C", "o", "m", "m", "e", "n", "t", " ", "b", "y">>
W_Comment_by_ == <<"C", "o", "m", "m", "e", "n", "t", " ", "b", "y", " ">>
W__to == <<" ", "t", "o">>
W__to_ == <<" ", "t", "o", " ">>

\* the first place from k on where p occurs in s, 0 when there is none
RECURSIVE IndexFrom(_, _, _)
IndexFrom(s, p, k) ==
    IF k + Len(p) - 1 > Len(s) THEN 0
    ELSE IF SubSeq(s, k, k + Len(p) - 1) = p THEN k
    ELSE IndexFrom(s, p, k + 1)

\* str.find + 1: the first place where p occurs in s, 0 when it does not
IndexOf(s, p) == IndexFrom(s, p, 1)

\* p in s
Contains(s, p) == IndexOf(s, p) > 0

\* s.split(sep)[0]
Before(s, sep) ==
    IF Contains(s, sep) THEN SubSeq(s, 1, IndexOf(s, sep) - 1) ELSE s

\* the text after the first occurrence of p in s
After(s, p) == Drop(s, IndexOf(s, p) + Len(p) - 1)

\* s.replace(p, '')
RECURSIVE Remove(_, _)
Remove(s, p) ==
    IF ~Contains(s, p) THEN s
    ELSE Before(s, p) \o Remove(After(s, p), p)

\* an optional "word\s+" of a pattern: what is left of r after it
OptWord(r, word) ==
    IF StartsWith(r, word) /\ LStrip(Drop(r, Len(word))) # Drop(r, Len(word))
    THEN LStrip(Drop(r, Len(word)))
    ELSE r

\* (?:\d+\s+)?
OptNumber(r) ==
    IF r # <<>> /\ IsDigit(Head(r)) /\ LStrip(DropDigits(r)) # DropDigits(r)
    THEN LStrip(DropDigits(r))
    ELSE r

AgoUnits ==
    {<<"s", "e", "c", "o", "n", "d">>,
     <<"m", "i", "n", "u", "t", "e">>,
     <<"h", "o", "u", "r">>,
     <<"d", "a", "y">>,
     <<"w", "e", "e", "k">>,
     <<"m", "o", "n", "t", "h">>,
     <<"y", "e", "a", "r">>}

\* \s+(?:about\s+)?(?:a\s+(?:few\s+)?)?(?:an\s+)?(?:\d+\s+)?
\* (?:second|minute|hour|day|week|month|year)s?\s+ago  matches at the start of r
TimeTail(r) ==
    /\ LStrip(r) # r
    /\ \E r1 \in {OptWord(LStrip(r), <<"a", "b", "o", "u", "t">>)} :
       \E a1 \in {OptWord(r1, <<"a">>)} :
       \E r2 \in {IF a1 # r1 THEN OptWord(a1, <<"f", "e", "w">>) ELSE r1} :
       \E n2 \in {OptWord(r2, <<"a", "n">>)} :
       \E r3 \in {OptNumber(n2)} :
       \E u \in AgoUnits :
          /\ StartsWith(r3, u)
          /\ \E r4 \in {Drop(r3, Len(u))} :
             \E r5 \in {IF r4 # <<>> /\ Head(r4) = "s" THEN Tail(r4) ELSE r4} :
                LStrip(r5) # r5 /\ StartsWith(LStrip(r5), W_ago)

ReplyFollows(r) == StartsWith(r, W__to)
CommentFollows(r) == TimeTail(r) \/ StartsWith(r, <<",">>) \/ r = <<>>
ThaiByFollows(r) ==
    \/ LStrip(r) # r /\ StartsWith(LStrip(r), <<TH_when>>)
    \/ StartsWith(r, <<",">>)
    \/ r = <<>>
ThaiFromFollows(r) == LStrip(r) # r /\ StartsWith(LStrip(r), <<TH_when>>)

\* what has to follow the group (.+?) of the pattern of this lead-in phrase
Follows(phrase, r) ==
    CASE phrase = W_Reply_by_ -> ReplyFollows(r)
      [] phrase = W_Comment_by_ -> CommentFollows(r)
      [] phrase = <<TH_comment_by>> -> ThaiByFollows(r)
      [] phrase = <<TH_comment_from>> -> ThaiFromFollows(r)

\* the shortest group (.+?) at the start of r after which the rest of the
\* pattern of the phrase matches; <<>> when there is none
RECURSIVE GroupFrom(_, _, _)
GroupFrom(r, phrase, j) ==
    IF j > Len(r) THEN <<>>
    ELSE IF Follows(phrase, Drop(r, j)) THEN SubSeq(r, 1, j)
    ELSE GroupFrom(r, phrase, j + 1)

LazyGroup(r, phrase) == GroupFrom(r, phrase, 1)

\* group 1 of  <phrase>\s+(.+?)<follows>  searched in label: \s+ takes the
\* spaces after the phrase, or all but the last of them when nothing else
\* is left for the group
ThaiGroup(label, phrase) ==
    LET r0 == After(label, phrase)
        r  == LStrip(r0)
    IN  IF r0 = r THEN <<>>
        ELSE IF LazyGroup(r, phrase) # <<>> THEN LazyGroup(r, phrase)
        ELSE IF Len(r0) - Len(r) >= 2
             THEN LazyGroup(<<" ">> \o r, phrase)
             ELSE <<>>

\* scraper.py / scraper_full.py: extract_name_from_aria
extract_name_from_aria(aria_label) ==
    IF aria_label = <<>> THEN W_Unknown
    ELSE IF Contains(aria_label, W_Reply_by) THEN
        IF Contains(aria_label, W_Reply_by_)
           /\ LazyGroup(After(aria_label, W_Reply_by_), W_Reply_by_) # <<>>
        THEN Strip(LazyGroup(After(aria_label, W_Reply_by_), W_Reply_by_))
        ELSE Strip(Before(Remove(aria_label, W_Reply_by_), W__to_))
    ELSE IF Contains(aria_label, W_Comment_by) THEN
        IF Contains(aria_label, W_Comment_by_)
           /\ LazyGroup(After(aria_label, W_Comment_by_), W_Comment_by_) # <<>>
        THEN Strip(LazyGroup(After(aria_label, W_Comment_by_), W_Comment_by_))
        ELSE Strip(Before(Remove(aria_label, W_Comment_by), <<",">>))
    ELSE IF Contains(aria_label, <<TH_comment_by>>) THEN
        IF ThaiGroup(aria_label, <<TH_comment_by>>) # <<>>
        THEN Strip(ThaiGroup(aria_label, <<TH_comment_by>>))
        ELSE Strip(Before(Remove(aria_label, <<TH_comment_by>>), <<TH_when>>))
    ELSE IF Contains(aria_label, <<TH_comment_from>>) THEN
        IF ThaiGroup(aria_label, <<TH_comment_from>>) # <<>>
        THEN Strip(ThaiGroup(aria_label, <<TH_comment_from>>))
        ELSE Strip(Before(Remove(aria_label, <<TH_comment_from>>), <<TH_when>>))
    ELSE W_Unknown

\* the label has one of the lead-in phrases
HasLeadIn(aria_label) ==
    \/ Contains(aria_label, W_Comment_by)
    \/ Contains(aria_label, W_Reply_by)
    \/ Contains(aria_label, <<TH_comment_by>>)
    \/ Contains(aria_label, <<TH_comment_from>>)

\* scraper.py scrape_post_comments: the name given to an article with this
\* aria-label and this first profile link (skip: the article is passed over)
CommenterOf(aria_label, link) ==
    LET name1 == IF aria_label # <<>> /\ HasLeadIn(aria_label)
                 THEN extract_name_from_aria(aria_label)
                 ELSE W_Unknown
        name2 == IF name1 = W_Unknown /\ link.found THEN link.text ELSE name1
    IN  [skip |-> name2 = W_Unknown /\ aria_label = <<>>, name |-> name2]

\* the aria-labels of the articles
FnLabels ==
    {<<"C", "o", "m", "m", "e", "n", "t", " ", "b", "y", " ", "B", "o", "b">>,
     <<"C", "o", "m", "m", "e", "n", "t", " ", "b", "y", " ", "B", "o", "b", ",", " ", "3", "h">>,
     <<"C", "o", "m", "m", "e", "n", "t", " ", "b", "y", " ", "B", "o", "b", " ", "2", " ", "h", "o", "u", "r", "s", " ", "a", "g", "o">>,
     <<"C", "o", "m", "m", "e", "n", "t", " ", "b", "y", " ", "B", "o", "b", " ", "a", "b", "o", "u", "t", " ", "a", "n", " ", "h", "o", "u", "r", " ", "a", "g", "o">>,
     <<"C", "o", "m", "m", "e", "n", "t", " ", "b", "y", " ", "B", "o", "b", " ", "a", " ", "f", "e", "w", " ", "s", "e", "c", "o", "n", "d", "s", " ", "a", "g", "o">>,
     <<"C", "o", "m", "m", "e", "n", "t", " ", "b", "y", " ", "A", "l", " ", "B", "o", " ", "a", " ", "d", "a", "y", " ", "a", "g", "o">>,
     <<"C", "o", "m", "m", "e", "n", "t", " ", "b", "y">>,
     <<"C", "o", "m", "m", "e", "n", "t", " ", "b", "y", " ">>,
     <<"C", "o", "m", "m", "e", "n", "t", " ", "b", "y", " ", " ">>,
     <<"C", "o", "m", "m", "e", "n", "t", " ", "b", "y", " ", ",", " ", "3", "h">>,
     <<"R", "e", "p", "l", "y", " ", "b", "y", " ", "A", "l", " ", "t", "o", " ", "B", "o", "b">>,
     <<"R", "e", "p", "l", "y", " ", "b", "y", " ", "A", "l">>,
     <<"R", "e", "p", "l", "y", " ", "b", "y">>,
     <<"R", "e", "p", "l", "y", " ", "b", "y", " ", " ", "t", "o", " ", "B", "o", "b">>,
     <<"P", "h", "o", "t", "o">>,
     <<>>,
     <<TH_comment_by, " ", "B", "o", "b", " ", TH_when, " ", "1">>,
     <<TH_comment_by, " ", "B", "o", "b", ",", " ", "1">>,
     <<TH_comment_by>>,
     <<TH_comment_by, " ">>,
     <<TH_comment_from, " ", "B", "o", "b", " ", TH_when>>,
     <<TH_comment_from, " ", "B", "o", "b">>,
     <<TH_comment_from, " ">>}

\* the first profile link of an article: none, or one with this inner text
FnLinks ==
    {[found |-> FALSE, text |-> <<>>],
     [found |-> TRUE, text |-> T_name],
     [found |-> TRUE, text |-> <<>>]}

\* the naming of one article by scraper.py or scraper_full.py
ExtractName ==
    \E l \in FnLabels, k \in FnLinks :
        /\ impl # "v2"
        /\ fn = "none"
        /\ fn' = "extract_name"
        /\ arg' = [label |-> l, link |-> k]
        /\ ret' = CommenterOf(l, k)
        /\ UNCHANGED runVars

\* the sameSite values of the cookie file; every value of a cookie is written
\* as a sequence of symbols, here of one
SameSiteInputs ==
    {<<w>> : w \in {"Strict", "strict", "Lax", "LAX", "None", "none",
                    "no_restriction", "unspecified"}}

\* str(value).lower() of a sameSite value
LowerWord(w) ==
    CASE w = "Strict" -> "strict"
      [] w \in {"Lax", "LAX"} -> "lax"
      [] w = "None" -> "none"
      [] OTHER -> w

\* str.capitalize() of a lower-case sameSite value
Capitalize(w) ==
    CASE w = "strict" -> "Strict"
      [] w = "lax" -> "Lax"
      [] w = "none" -> "None"
      [] OTHER -> w

\* the domains of the cookie file, as sequences of labels and dots
DomainInputs ==
    {<<"facebook", ".", "com">>, <<".", "facebook", ".", "com">>,
     <<"www", ".", "facebook", ".", "com">>}

\* the keys a cookie has besides name and value
CookieKeys == SUBSET {"sameSite", "domain"}

\* the cookies of the cookie file: dicts with or without name and value, with
\* or without sameSite and domain
Cookies ==
    UNION {[({"name", "value"} \cup keys) ->
               SameSiteInputs \cup DomainInputs \cup {<<"c_user">>}] : keys \in CookieKeys}
    \cup UNION {[keys -> SameSiteInputs \cup DomainInputs] : keys \in CookieKeys \ {{}}}

\* the values have the type of their key
WellFormed(c) ==
    /\ "name" \in DOMAIN c => c["name"] = <<"c_user">> /\ c["value"] = <<"c_user">>
    /\ "sameSite" \in DOMAIN c => c["sameSite"] \in SameSiteInputs
    /\ "domain" \in DOMAIN c => c["domain"] \in DomainInputs

FnCookies == {c \in Cookies : WellFormed(c)}

\* scraper.py / scraper_full.py: sanitize_cookies, for one cookie
sanitize_cookie(c) ==
    IF "sameSite" \in DOMAIN c
    THEN [c EXCEPT !["sameSite"] =
            IF LowerWord(@[1]) = "no_restriction" THEN <<"None">>
            ELSE IF LowerWord(@[1]) \in {"lax", "strict"}
                 THEN <<Capitalize(LowerWord(@[1]))>>
                 ELSE <<"Lax">>]
    ELSE c

\* dict.get(same_site, 'Lax') of FB_Scraper_V2.py
SameSiteTable(w) ==
    CASE w = "strict" -> "Strict"
      [] w = "lax" -> "Lax"
      [] w = "none" -> "None"
      [] OTHER -> "Lax"

\* FB_Scraper_V2.py run_scraper: the formatted cookie (path and secure, which
\* are set by setdefault, are left out)
format_cookie(c) ==
    [k \in DOMAIN c \cup {"sameSite", "domain"} |->
        IF k = "sameSite"
        THEN IF k \in DOMAIN c THEN <<SameSiteTable(LowerWord(c[k][1]))>>
             ELSE <<"Lax">>
        ELSE IF k = "domain"
        THEN IF k \in DOMAIN c
             THEN IF StartsWith(c[k], <<".">>) THEN c[k] ELSE <<".">> \o c[k]
             ELSE <<".", "facebook", ".", "com">>
        ELSE c[k]]

\* the cookies handed to context.add_cookies for a cookie file with one cookie
SanitizedCookies(i, c) ==
    IF i = "v2"
    THEN IF {"name", "value"} \subseteq DOMAIN c THEN <<format_cookie(c)>> ELSE <<>>
    ELSE <<sanitize_cookie(c)>>

\* the normalisation of the cookies before the browser context gets them
SanitizeCookies ==
    \E c \in FnCookies :
        /\ fn = "none"
        /\ fn' = "sanitize_cookies"
        /\ arg' = [cookie |-> c]
        /\ ret' = [cookies |-> SanitizedCookies(impl, c)]
        /\ UNCHANGED runVars

NextFn ==
    \/ Classify
    \/ Meaningful
    \/ ExtractName
    \/ SanitizeCookies

SpecFn == Init /\ [][NextFn]_vars

-----------------------------------------------------------------------------
\* Claims

\* the records of all_comments that carry URL u
RecordsOf(u) == {i \in 1..Len(all_comments) : all_comments[i].URL = u}

IsPrefix(a, b) == Len(a) <= Len(b) /\ SubSeq(b, 1, Len(a)) = a

\* the records of all_comments whose whitespace-collapsed body is k
RecordsWith(k) == {i \in 1..Len(all_comments) : JoinSplit(all_comments[i].Comment) = k}

\* the whitespace-collapsed bodies of the accepted records
Bodies == {JoinSplit(all_comments[i].Comment) : i \in 1..Len(all_comments)}

\* the first URL that has a record with body k
FirstUrl(k) ==
    CHOOSE u \in 1..NumUrls :
        /\ \E i \in RecordsWith(k) : all_comments[i].URL = u
        /\ \A i \in RecordsWith(k) : u <= all_comments[i].URL

\* the positions of the run at which a URL is being extracted
InUrl == {"goto", "locate", "cycle", "cycle_end"}

\* C1: within the processing of one source URL, no two records appended to
\* the accepted-record list have the same whitespace-collapsed body text.
C1_UniqueCollapsedBodyPerUrl ==
    \A i, j \in 1..Len(all_comments) :
        (i # j /\ all_comments[i].URL = all_comments[j].URL)
            => JoinSplit(all_comments[i].Comment) # JoinSplit(all_comments[j].Comment)

\* C2: the accepted-text set is empty at the start of each URL, and while a
\* URL is processed it holds the bodies accepted for that URL only, so that a
\* body accepted for an earlier URL A is not refused for a later URL B.
C2_DedupStateResetPerUrl ==
    /\ pc \in {"new_page", "goto"} => processed_texts = {}
    /\ pc \in InUrl =>
         processed_texts = {DedupKey(all_comments[i].Comment) : i \in RecordsOf(urlIdx)}

\* C3: when records of two URLs of the run have the same comment body, the
\* rows handed to the output sink hold exactly one row for that body, and its
\* URL is the first of the two URLs.
C3_OneRowFromFirstUrl ==
    written =>
        \A k \in Bodies :
            (\E i, j \in RecordsWith(k) : all_comments[i].URL # all_comments[j].URL)
            => LET rows == {i \in 1..Len(output) : JoinSplit(output[i].Comment) = k}
               IN  /\ Cardinality(rows) = 1
                   /\ \A i \in rows : output[i].URL = FirstUrl(k)

\* C4 as stated: while no scan of the URL has yielded a record, the cycle
\* loop is within the streak threshold of its content type (and so within
\* the maximum cycle count).
C4_ZeroYieldWithinThreshold ==
    (cycle > 0 /\ RecordsOf(urlIdx) = {})
        => /\ cycle <= StreakThreshold(impl, url_type)
           /\ cycle <= MaxCycles(impl, url_type)

\* C4: while no scan of the URL has yielded a record and no click on "View
\* more comments" has fired, the cycle loop is within the streak threshold of
\* its content type, which is within the maximum cycle count.
C4_ZeroYieldNoClickWithinThreshold ==
    (cycle > 0 /\ RecordsOf(urlIdx) = {} /\ ~view_more_fired)
        => /\ cycle <= StreakThreshold(impl, url_type)
           /\ StreakThreshold(impl, url_type) <= MaxCycles(impl, url_type)

\* the loop has ended by the streak, in the cycle of the threshold, for a URL
\* that yielded nothing
C4_Witness ==
    /\ pc \in {"close_page", "after_url"}
    /\ urlIdx \notin failed_urls
    /\ RecordsOf(urlIdx) = {}
    /\ ~view_more_fired
    /\ cycle = StreakThreshold(impl, url_type)
    /\ no_new_streak = StreakThreshold(impl, url_type)

\* the step that ends the last cycle of the range does not enter a cycle
LastCycleStep ==
    (pc = "cycle_end" /\ cycle = MaxCycles(impl, url_type)) => pc' # "cycle"

\* C5 as stated: the cycle loop executes at most the maximum cycle count of
\* its content type and then ends (the step after the last cycle of the range
\* leaves the loop), and the maximum for Post is smaller than
\* the maximum for Watch and for Reel.
C5_CyclesBoundedPostSmaller ==
    /\ [](cycle <= MaxCycles(impl, url_type))
    /\ [](/\ MaxCycles(impl, "POST") < MaxCycles(impl, "WATCH")
          /\ MaxCycles(impl, "POST") < MaxCycles(impl, "REEL"))
    /\ [][LastCycleStep]_vars

\* C5: for every page behaviour the cycle loop executes at most the maximum
\* cycle count of its content type and then ends (the step after the last
\* cycle of the range leaves the loop), and the maximum for Post is not larger
\* than the maximum for Watch and for Reel.
C5_CyclesBoundedPostNotLarger ==
    /\ [](cycle <= MaxCycles(impl, url_type))
    /\ [](\A i \in Impls :
            /\ MaxCycles(i, "POST") <= MaxCycles(i, "WATCH")
            /\ MaxCycles(i, "POST") <= MaxCycles(i, "REEL"))
    /\ [][LastCycleStep]_vars

\* the loop has run through its whole range and ended without a streak
C5_Witness ==
    /\ pc \in {"close_page", "after_url"}
    /\ urlIdx \notin failed_urls
    /\ ~should_stop
    /\ cycle = MaxCycles(impl, url_type)
    /\ no_new_streak < StreakThreshold(impl, url_type)

\* C6: a run that ends with at least one accepted record has written the
\* accepted records to the output sink, whatever failed on the way.
C6_PartialOutputOnFailure ==
    (pc = "done" /\ all_comments # <<>>)
        => written /\ result \in {"success", "success_warning"}

\* a step of the extraction of one URL stays inside the run and at its URL
ExtractionStep ==
    pc \in InUrl =>
        /\ pc' \notin {"done", "except"}
        /\ result' = result
        /\ IsPrefix(all_comments, all_comments')
        /\ urlIdx' = urlIdx

\* C7: a step of the extraction of one URL (navigation, container, cycle)
\* never ends the run or raises to its caller, never loses a record and stays
\* at its URL; and the loop over the URLs is left only after the last URL
\* (or on a stop request).
C7_UrlErrorCaughtAtBoundary ==
    /\ [][ExtractionStep]_vars
    /\ []((pc = "close_browser" /\ ~should_stop) => urlIdx > NumUrls)

\* the first URL failed after a record, the run went on to the second URL,
\* which yielded a record, and both records were written
C7_Witness ==
    /\ 1 \in failed_urls
    /\ RecordsOf(1) # {}
    /\ RecordsOf(2) # {}
    /\ written
    /\ Len(output) = 2

\* a step of a scan after the stop signal reports no error
StoppedScanStep ==
    (should_stop /\ CurStep = "scan")
        => /\ failed_urls' = failed_urls
           /\ result' = result
           /\ pc' \notin {"except", "done"}

StepAfterStop ==
    should_stop =>
        /\ cycle' <= cycle
        /\ ~(pc = "url_top" /\ pc' \in {"new_page", "goto"})

\* C9: after the stop signal no further cycle and no further URL is started,
\* and at most the one operation in flight is carried out.
C9_OnlyInFlightOperation ==
    /\ [][StepAfterStop]_vars
    /\ [](opsAfterStop <= 1)

\* C10: while a URL is extracted the one open page is the page of that URL,
\* no page is open when the page of a URL is about to be opened, and none is
\* open when the run has ended.
C10_OnePagePerUrl ==
    /\ Cardinality(pages) <= 1
    /\ pc \in InUrl => (page = urlIdx /\ pages = {urlIdx})
    /\ pc \in {"new_page", "close_browser", "done"} => pages = {}

\* C11: determine_url_type returns Watch for a URL with a video/live pattern,
\* Reel for one with a reel pattern, Post for one with a post, permalink, photo
\* or group pattern, and Watch for a URL that matches no group; the first group
\* in that order wins.
C11_ClassifyFirstGroupDefaultWatch ==
    fn = "determine_url_type" =>
        ret.url_type = IF AnyIn(watch_patterns, arg.url) THEN "WATCH"
                       ELSE IF AnyIn(reel_patterns, arg.url) THEN "REEL"
                       ELSE IF AnyIn(post_patterns, arg.url) THEN "POST"
                       ELSE "WATCH"

\* the relative timestamps C12 names
RelativeTimestamps ==
    {<<"3", "h", " ", "a", "g", "o">>,
    <<"2", "d">>,
    <<"j", "u", "s", "t", " ", "n", "o", "w">>,
    <<"y", "e", "s", "t", "e", "r", "d", "a", "y">>}

\* C12: is_meaningful_text returns false for every UI-vocabulary word (like,
\* reply, share, view, hide, edited, translated, write a comment, most
\* relevant, author, top fan) in any letter case, for a purely numeric string
\* of any length, and for a relative timestamp such as "3h ago", "2d",
\* "just now" or "yesterday".
C12_UiWordsNumbersTimestampsRejected ==
    (/\ fn = "is_meaningful_text"
     /\ \/ Lower(arg.text) \in ui_elements
        \/ arg.text # <<>> /\ AllDigits(arg.text)
        \/ Lower(arg.text) \in RelativeTimestamps)
    => ~ret.meaningful

\* the number of characters of s that are neither digits nor punctuation
SignificantCount(s) == Cardinality({k \in 1..Len(s) : ~IsCountChar(s[k])})

\* what is left of t once @mentions and UI-vocabulary words are stripped
Residual(t) ==
    IF Lower(Strip(t)) \in ui_elements THEN <<>> ELSE TestText(Strip(t))

\* the call was of is_meaningful_text, on a non-empty text that is not the
\* author name and keeps two significant characters
KeepsTwoSignificant ==
    /\ fn = "is_meaningful_text"
    /\ arg.text # <<>>
    /\ Lower(Strip(arg.text)) # Lower(arg.name)
    /\ SignificantCount(Residual(arg.text)) >= 2

\* the text of the call is a relative timestamp
IsTimestamp ==
    \/ MatchesAgo(Strip(arg.text))
    \/ MatchesAge(Strip(arg.text), {"w", "d", "h", "m", "s"})
    \/ Lower(Strip(arg.text)) \in {W_just_now, W_yesterday}

\* the text of the call is one scraper.py rejects as page furniture
IsScraperFurniture ==
    /\ impl # "v2"
    /\ \/ Lower(Strip(arg.text)) \in ui_patterns_words
       \/ MatchesHeader(Strip(arg.text))

\* C13 as stated: is_meaningful_text returns true for every non-empty string
\* that is not the author name and keeps at least 2 significant characters
\* after @mention tokens and UI-vocabulary words are stripped.
C13_TwoSignificantCharsAccepted ==
    KeepsTwoSignificant => ret.meaningful

\* C13, amended: ... and that is not a relative timestamp, nor (scraper.py,
\* scraper_full.py) "Follow" or a text that begins with "Most relevant" or
\* "View N repl".
C13_TwoSignificantCharsNoTimestampAccepted ==
    (KeepsTwoSignificant /\ ~IsTimestamp /\ ~IsScraperFurniture) => ret.meaningful

\* a text with a mention that keeps two characters was accepted by V2
C13_Witness ==
    /\ KeepsTwoSignificant /\ ~IsTimestamp /\ ~IsScraperFurniture
    /\ impl = "v2"
    /\ Residual(arg.text) # Strip(arg.text)
    /\ Len(Residual(arg.text)) = 2
    /\ ret.meaningful

\* C14: every accepted record has an author that is a non-empty extracted name
\* or exactly "Unknown": a label with no recognised lead-in phrase and no
\* profile link, or a lead-in phrase followed by no name, yields "Unknown" and
\* never an empty name.
C14_AuthorNonEmptyOrUnknown ==
    (fn = "extract_name" /\ ~ret.skip) =>
        /\ Strip(ret.name) # <<>>
        /\ (~HasLeadIn(arg.label) /\ ~arg.link.found) => ret.name = W_Unknown

\* a step that appends a record appends one whose whitespace-collapsed body
\* was not in the accepted-text set
NoDuplicateAppended ==
    Len(all_comments') = Len(all_comments) + 1 =>
        JoinSplit(all_comments'[Len(all_comments')].Comment) \notin processed_texts

\* C15: the add of a record whose whitespace-collapsed body is already in the
\* per-URL accepted-text set is refused without an error and leaves the
\* accepted-record list and the set unchanged; bodies that differ only in the
\* length of their internal whitespace runs count as the same body.
C15_DuplicateRefused ==
    [][NoDuplicateAppended]_vars

\* a step that ends the location of the container without a container (and
\* without a stop request) marks the URL as failed, adds no record and raises
\* no error
NoContainerStep ==
    (pc = "locate" /\ ~should_stop /\ pc' \notin {"locate", "cycle"})
        => /\ urlIdx \in failed_urls'
           /\ all_comments' = all_comments
           /\ result' = result
           /\ pc' \notin {"done", "except"}

\* C16: if no container is found for a URL, that URL ends as failed with zero
\* records added, no error is raised, and the run goes on with the next URL.
C16_NoContainerUrlFailed ==
    [][NoContainerStep]_vars

\* a step that ends the navigation or the location of the container of a URL
\* without success puts the URL in the failed list, does not count it as a
\* success, and goes on to the end of that URL
RecoverableFailureStep ==
    (pc \in {"goto", "locate"} /\ ~should_stop /\ pc' \notin {"goto", "locate", "cycle"})
        => /\ failed_urls' = failed_urls \cup {urlIdx}
           /\ success_count' = success_count
           /\ pc' \in {"close_page", "after_url"}

\* C17: a URL that fails recoverably (navigation timeout, container not found)
\* is recorded as failed: it is entered in the failed list and not counted as
\* a success, and the run continues.
C17_RecoverableFailureRecorded ==
    [][RecoverableFailureStep]_vars

\* C18: after the normalisation every cookie has a sameSite of Strict, Lax or
\* None (Lax when it was absent or not recognised, None when it was none or
\* None) and a domain that begins with a dot.
C18_CookiesNormalised ==
    fn = "sanitize_cookies" =>
        \A k \in 1..Len(ret.cookies) :
            LET c == ret.cookies[k] IN
            /\ "sameSite" \in DOMAIN c
            /\ c["sameSite"] \in {<<"Strict">>, <<"Lax">>, <<"None">>}
            /\ "sameSite" \notin DOMAIN arg.cookie => c["sameSite"] = <<"Lax">>
            /\ ("sameSite" \in DOMAIN arg.cookie
                  /\ arg.cookie["sameSite"] \in {<<"none">>, <<"None">>})
                 => c["sameSite"] = <<"None">>
            /\ "domain" \in DOMAIN c
            /\ StartsWith(c["domain"], <<".">>)

\* a step keeps every record of the list at its place and as it is
AppendOnlyStep ==
    /\ Len(all_comments') >= Len(all_comments)
    /\ \A i \in 1..Len(all_comments) : all_comments'[i] = all_comments[i]

\* C19: the accepted-record list is append-only and order-preserving: the list
\* at an earlier time is a prefix of the list at any later time of the run;
\* records are never modified, reordered or removed.
C19_ListAppendOnly ==
    [][AppendOnlyStep]_vars

\* the run ended with records of two URLs in the list, in the order of the URLs
C19_Witness ==
    /\ pc = "done"
    /\ Len(all_comments) >= 2
    /\ all_comments[1].URL < all_comments[2].URL

\* the cycle at its end accepted no record
ZeroYield == Len(all_comments) = cycle_start

\* the step ends a cycle without an error
EndsCycle ==
    pc = "cycle_end" /\ pc' # "cycle_end" /\ urlIdx \notin failed_urls'

\* the end of a cycle counts it into the streak when it accepted nothing and
\* sets the streak to 0 when it accepted something
StreakCountsZeroCycles ==
    EndsCycle => no_new_streak' = IF ZeroYield THEN no_new_streak + 1 ELSE 0

\* C20 as stated: at the end of every cycle the streak counter equals the
\* number of immediately preceding consecutive cycles (this one included)
\* that accepted zero new records; it is 0 after a cycle with newCount > 0.
C20_StreakIsZeroRunLength ==
    [][StreakCountsZeroCycles]_vars

\* FB_Scraper_V2.py, Watch and Reel: a cycle whose load-more click fired does
\* not count as a cycle without progress
CountsForStreak ==
    ZeroYield /\ ((impl = "v2" /\ url_type # "POST") => ~view_more_clicked)

\* FB_Scraper_V2.py leaves the loop from a cycle without new records before
\* the streak is updated (first cycle without comments, end probe of a Post)
LeftBeforeUpdate ==
    impl = "v2" /\ ZeroYield /\ pc' # "cycle" /\ no_new_streak' = no_new_streak

StreakCountsIdleCycles ==
    EndsCycle =>
        \/ no_new_streak' = IF CountsForStreak THEN no_new_streak + 1 ELSE 0
        \/ LeftBeforeUpdate

\* C20, amended: at the end of every cycle that reaches the update of the
\* streak, the counter equals the number of immediately preceding consecutive
\* cycles (this one included) that accepted zero new records and, for Watch
\* and Reel of FB_Scraper_V2.py, fired no load-more click; it is 0 after any
\* other cycle.
C20_StreakIsIdleRunLength ==
    [][StreakCountsIdleCycles]_vars

\* a cycle that accepted a record was followed by two cycles that accepted
\* none, and the fourth cycle starts with a streak of two
C20_Witness ==
    /\ pc = "cycle"
    /\ cycle = 4
    /\ step = 1
    /\ no_new_streak = 2
    /\ RecordsOf(urlIdx) # {}

\* the end of a cycle adds one to the streak
StreakIncremented == pc = "cycle_end" /\ no_new_streak' = no_new_streak + 1

IncrementOnlyWithoutReveal ==
    StreakIncremented => (ZeroYield /\ revealed = {})

\* C21 as stated: the streak counter is incremented at the end of a cycle
\* only if that cycle accepted zero new records and no reveal action (reply
\* expansion, load-more click, scroll) fired during it.
C21_IncrementOnlyWithoutReveal ==
    [][IncrementOnlyWithoutReveal]_vars

IncrementOnlyWhenCounted == StreakIncremented => CountsForStreak

\* C21, amended: the streak counter is incremented at the end of a cycle only
\* if that cycle accepted zero new records and, for Watch and Reel of
\* FB_Scraper_V2.py, its load-more click did not fire; a reply expansion or a
\* scroll that fired does not hold the increment back.
C21_IncrementOnlyWhenCounted ==
    [][IncrementOnlyWhenCounted]_vars

\* the first cycle expanded a reply thread, accepted nothing and was counted
C21_Witness ==
    /\ pc = "cycle"
    /\ cycle = 2
    /\ step = 1
    /\ round_num = 0
    /\ clicks = 1
    /\ no_new_streak = 1

\* the end of a cycle counts the cycle and leaves the loop, and neither the
\* range of the loop nor a stop has ended it
ConvergedByStreak ==
    /\ StreakIncremented
    /\ pc' # "cycle"
    /\ cycle < MaxCycles(impl, url_type)
    /\ ~LoopStopped

\* the end of a cycle goes on to the next cycle
NextCycle == pc = "cycle_end" /\ pc' = "cycle"

ConvergesAtThreeReelHigher ==
    /\ ConvergedByStreak =>
          IF url_type = "REEL" THEN no_new_streak' > 3 ELSE no_new_streak' = 3
    /\ (NextCycle /\ url_type # "REEL") => no_new_streak' < 3

BreakAt == IF impl # "v2" /\ url_type = "WATCH" THEN 4 ELSE 3

ConvergesAtBreakValue ==
    /\ ConvergedByStreak => no_new_streak' = BreakAt
    /\ NextCycle => no_new_streak' < BreakAt

FirstCycleEmpty == pc = "cycle_end" /\ cycle = 1 /\ ZeroYield

NoSecondCycleAfterEmptyFirst ==
    (FirstCycleEmpty /\ url_type \in {"POST", "REEL"}) => pc' # "cycle"

\* C23: for Post and Reel URLs, if cycle 1 accepts zero new records the
\* controller converges immediately: no second cycle is executed for that
\* URL.
C23_NoSecondCycleAfterEmptyFirst ==
    [][NoSecondCycleAfterEmptyFirst]_vars

\* the end of a cycle leaves the loop, with no stop and no error
LoopEndsByItself ==
    /\ pc = "cycle_end"
    /\ pc' \notin {"cycle", "cycle_end"}
    /\ ~LoopStopped
    /\ failed_urls' = failed_urls

EmptyFirstCycleGoesOn ==
    (FirstCycleEmpty /\ url_type = "WATCH") => ~LoopEndsByItself

\* C24: for Watch URLs a first cycle that accepts zero new records never ends
\* the loop by itself: the loop continues until the streak threshold or the
\* max-cycle bound is reached.
C24_WatchEmptyFirstCycleGoesOn ==
    [][EmptyFirstCycleGoesOn]_vars

\* the step of the loop body that runs next
StepNow == CycleSteps(impl, url_type)[step]

\* the step named s has run in this cycle before the one that runs next
RanBefore(s) == \E j \in 1..(step - 1) : CycleSteps(impl, url_type)[j] = s

\* the loop body has a step named s
HasStep(s) ==
    \E j \in 1..Len(CycleSteps(impl, url_type)) : CycleSteps(impl, url_type)[j] = s

StepOrderKept ==
    pc = "cycle" =>
        /\ StepNow = "load_more" => RanBefore("expand")
        /\ StepNow = "scan_begin" /\ HasStep("load_more") => RanBefore("load_more")
        /\ StepNow = "scroll" => RanBefore("scan")

\* C25: within each cycle, expandReplies runs before clickLoadMore,
\* clickLoadMore runs before the scan of the visible elements, and that scan
\* runs before scrollContainer.
C25_StepOrderKept == StepOrderKept

\* the second pass of a cycle (re-click, re-expand, re-scan) is running
SecondPass == pc = "cycle" /\ RanBefore("scroll")

SecondPassOnlyAfterAdvance == SecondPass => scrolled.to > scrolled.from

\* C26: the second expandReplies/scan pass of a cycle is executed only if the
\* scroll step of that cycle actually increased the scroll offset; when the
\* container is already at its bottom and the offset does not change, no
\* second pass runs.
C26_SecondPassOnlyAfterAdvance == SecondPassOnlyAfterAdvance

\* the URL is being processed with a page that has settled
PageSettled == pc \in {"locate", "cycle", "cycle_end"}

TypeOfSettledUrl ==
    /\ PageSettled => url_type = page_url_type
    /\ PageSettled /\ PageSettled' => url_type' = url_type

\* C27: the content type used for a URL is computed exactly once, from the
\* URL the browser has settled on after navigation (the redirect target), and
\* is not recomputed during the cycle loop.
C27_TypeOfSettledUrl == [][TypeOfSettledUrl]_vars

\* a reveal action or the query of a scan runs while the container that was
\* located is out of the document
DetachedOp ==
    /\ container = "detached"
    /\ pc = "cycle"
    /\ StepNow \in {"load_more", "expand", "scan_begin", "scroll"}
    /\ <<pc, step, round_num>>' # <<pc, step, round_num>>

DetachFailsHard == DetachedOp => urlIdx \in failed_urls'

\* C28: if the located container node detaches from the document during the
\* cycle loop, the URL's cycle fails hard (ends in an error) instead of
\* continuing: reveal actions and scans never silently operate on a
\* different node or on no node and carry on cycling.
C28_DetachFailsHard == [][DetachFailsHard]_vars

ClickedAtMostOnce == clicks <= 1

\* C29: a reply-expansion control identified by the same text and the same
\* vertical offset is clicked at most once during the processing of one URL,
\* across all rounds and all cycles.
C29_ClickedAtMostOnce == ClickedAtMostOnce

\* a round of the reply expansion runs
ExpandRuns ==
    /\ pc = "cycle"
    /\ StepNow = "expand"
    /\ <<pc, step, round_num>>' # <<pc, step, round_num>>

\* every reply control that is shown has been clicked for this URL
NothingUnclicked == "replies" \in buttons => clicks >= 1

ExpandStops ==
    /\ round_num < max_rounds
    /\ ExpandRuns /\ NothingUnclicked /\ failed_urls' = failed_urls =>
           round_num' = 0 /\ clicks' = clicks

\* C30: one invocation of expandReplies terminates after at most a fixed
\* number of rounds (10), even if every click reveals further reply controls,
\* and stops as soon as a round finds no unclicked control.
C30_ExpandStops == [][ExpandStops]_vars

OneClickPerLoadMore == clicked <= 1

\* C31: one invocation of clickLoadMore clicks at most one control, however
\* many load-more style controls the container shows.
C31_OneClickPerLoadMore == OneClickPerLoadMore

\* a reveal action (reply expansion, load-more click, scroll) runs
RevealRuns ==
    /\ pc = "cycle"
    /\ StepNow \in {"expand", "load_more", "scroll"}
    /\ <<pc, step, round_num>>' # <<pc, step, round_num>>

RevealErrorSwallowed ==
    RevealRuns => failed_urls' = failed_urls /\ pc' \in {"cycle", "cycle_end"}

\* C32: a timeout or error in a single reveal action (one expand click, one
\* load-more click, one scroll) is swallowed and treated as no effect: the
\* cycle continues and the URL's processing is not aborted.
C32_RevealErrorSwallowed == [][RevealErrorSwallowed]_vars

\* the step in which a scan takes the except branch for an element
ErrorCaughtNow == ~caught /\ caught'

\* a step of a scan that has caught the error of an element, without a stop
ScanGoesOn ==
    /\ caught
    /\ pc = "cycle"
    /\ <<pc, step, articles>>' # <<pc, step, articles>>
    /\ ~LoopStopped

ElementErrorCaught ==
    /\ ErrorCaughtNow =>
          /\ articles' = articles - 1
          /\ articles' > 0
          /\ UNCHANGED <<pc, step, failed_urls, all_comments, processed_texts>>
    /\ ScanGoesOn =>
          /\ articles' = articles - 1
          /\ failed_urls' = failed_urls
          /\ pc' \in {"cycle", "cycle_end"}

\* C33: an error raised while extracting one comment element is caught for
\* that element only: the remaining elements of the same scan are still
\* processed and the cycle continues.
C33_ElementErrorCaught == [][ElementErrorCaught]_vars

\* a scan has caught the error of one element, has stored the record of
\* another and has an element left
C33_Witness ==
    /\ pc = "cycle"
    /\ caught
    /\ articles = 1
    /\ Len(all_comments) > cycle_start

AcceptedKeepsTwoSignificant ==
    (fn = "is_meaningful_text" /\ ret.meaningful) =>
        SignificantCount(Residual(arg.text)) >= 2

\* C34: isMeaningfulComment accepts a text only if, after @mention tokens and
\* UI-vocabulary words are removed, at least 2 characters remain that are
\* neither punctuation nor digits; a text whose residue holds a single such
\* character (for example one letter next to digits or punctuation) is
\* rejected.
C34_AcceptedKeepsTwoSignificant == AcceptedKeepsTwoSignificant

\* a step of a run on which stop() was called leaves should_stop set and
\* starts no URL
StopHeld ==
    (should_stop /\ pc # "done") =>
        /\ should_stop'
        /\ ~(pc = "url_top" /\ pc' \in {"new_page", "goto"})

\* C35: a stop() call is never lost: if stop() is called on a scraper at any
\* moment after scrape_urls has been invoked on it, including before the run
\* has executed its first step, should_stop stays set until that run returns
\* and the run starts no URL after that moment.
C35_StopNeverLost == [][StopHeld]_vars

AtMostOneAfterStop == should_stop => Len(all_comments) <= stopped_at + 1

\* C36: after stop() is called while a scan is suspended inside the
\* processing of one element, at most one further record (that in-flight
\* element) is appended during the rest of the run, for every interleaving of
\* stop() with the scan, re-scan and cycle steps.
C36_AtMostOneAfterStop == AtMostOneAfterStop

\* stop() came while an element was being processed; the record of that
\* element was appended, the scan was left with an element to go and the run
\* has ended
C36_Witness ==
    /\ pc = "done"
    /\ should_stop
    /\ Len(all_comments) = stopped_at + 1
    /\ articles > 0

\* sanitizing the cookies that a call has sanitized gives them back unchanged
SanitizeIdempotent ==
    (fn = "sanitize_cookies" /\ ret.cookies # <<>>) =>
        SanitizedCookies(impl, ret.cookies[1]) = ret.cookies

\* C37: sanitize_cookies is idempotent: applying it twice to a cookie list
\* gives the same sameSite values as applying it once, so reusing one cookie
\* list for two runs (the list is modified in place) hands the browser the
\* same cookies both times.
C37_SanitizeIdempotent == SanitizeIdempotent

\* the whitespace-collapsed bodies of the records of all_comments
StoredBodies ==
    {JoinSplit(all_comments[i].Comment) : i \in 1..Len(all_comments)}

StoreMatchesProcessed ==
    impl = "scraper" =>
        /\ StoredBodies = processed_texts
        /\ Cardinality(processed_texts) = Len(all_comments)

\* C38: in scraper.py, at every point of a run where control can be
\* suspended, the set of whitespace-collapsed bodies of the records in
\* all_comments equals processed_texts and the two have the same size: no
\* text is marked as processed without its record being stored, and no
\* record is stored without its text being marked.
C38_StoreMatchesProcessed == StoreMatchesProcessed

\* scraper.py holds two records, of two URLs, one of them with a body that
\* its key collapses, and is in the middle of a cycle
C38_Witness ==
    /\ impl = "scraper"
    /\ pc = "cycle"
    /\ Len(all_comments) = 2
    /\ all_comments[1].URL # all_comments[2].URL
    /\ \E i \in 1..2 : JoinSplit(all_comments[i].Comment) # all_comments[i].Comment

====
